---- MODULE Spec2Model ----
(***************************************************************************)
(* Terraflux: the MCP client (src/mcp/client.py), its connection pool and  *)
(* the Terraform provisioning engine (src/mcp/server/terraform_server.py). *)
(*                                                                         *)
(* Three state machines share this module, one specification each:         *)
(*   SpecEngine  TerraformMCPServer.plan_infrastructure / apply_...        *)
(*   SpecClient  MCPClient.connect / call_tool / _wait_for_response        *)
(*   SpecPool    MCPConnectionPool.get_client / return_client              *)
(* A specification holds the variables of the other two machines at their  *)
(* constructed values.                                                     *)
(*                                                                         *)
(* Scheduling.  All three are asyncio code: a coroutine runs until an      *)
(* `await`, where another coroutine of the same object may run.  An action *)
(* of the model is the code between two awaits.  Engine calls are stepped  *)
(* at every await of plan_infrastructure / apply_infrastructure.           *)
(***************************************************************************)
EXTENDS Integers, Sequences, FiniteSets, TLC

\* ------------------------------------------------------------------------
\* Bounds of the model (not program constants)
\* ------------------------------------------------------------------------
MaxCalls == 3
MaxInFlight == 2
MaxTasks == 2
MaxRequests == 4
MaxSessions == 2
MaxHolders == 3
MaxClients == 4
MaxConnections == 2
MaxDirect == 3
MaxOdd == 1
MaxRuns == 2
MaxActions == 2
MaxToolCalls == 3

\* ------------------------------------------------------------------------
\* Strings are sequences of one-character strings, so that the pattern of
\* _create_workspace is computed character by character.
\* ------------------------------------------------------------------------
UuidLen == 36

UuidChars == {"a", "b", "c", "d", "e", "f", "0", "1", "2", "3", "4", "5", "6", "7", "8", "9", "-"}

Rep(ch, n) == [i \in 1..n |-> ch]

\* the user ids the engine is called with
UidA == Rep("a", UuidLen)
UidB == Rep("b", UuidLen)
UidShort == Rep("a", UuidLen - 1)
UidNewline == Rep("a", UuidLen) \o <<"\n">>

\* further user ids _create_workspace is given: a hyphenated uuid, upper
\* case, one character too many, a line break inside, a relative path
UidUuid == Rep("0", 8) \o <<"-">> \o Rep("a", 4) \o <<"-">> \o Rep("4", 4) \o <<"-">> \o Rep("b", 4)
           \o <<"-">> \o Rep("9", 12)
UidUpper == Rep("A", UuidLen)
UidLong == Rep("a", UuidLen + 1)
UidBreakInside == Rep("a", UuidLen - 1) \o <<"\n">>
UidPath == <<".", ".", "/">> \o Rep("a", UuidLen - 3)

UserIdInputs == {UidA, UidB, UidShort, UidNewline, UidUuid, UidUpper, UidLong, UidBreakInside, UidPath, <<>>}

\* the (user_id, environment) pairs plan_infrastructure is called with
PlanInputs == {<<UidA, "dev">>, <<UidB, "dev">>, <<UidA, "qa">>,
               <<UidShort, "dev">>, <<UidNewline, "dev">>}

\* the claims' notion of a UUID-shaped id: exactly 36 characters of [a-f0-9-]
UuidShaped(s) == Len(s) = UuidLen /\ \A i \in 1..Len(s) : s[i] \in UuidChars

ValidEnvironment(e) == e \in {"dev", "staging", "prod"}

\* re.match(r'^[a-f0-9\-]{36}$', user_id): in Python `$` matches at the end
\* of the string and also just before a newline that ends the string.
MatchUserId(s) ==
    LET body == IF Len(s) = UuidLen + 1 /\ s[Len(s)] = "\n" THEN SubSeq(s, 1, UuidLen) ELSE s
    IN  Len(body) = UuidLen /\ \A i \in 1..Len(body) : body[i] \in UuidChars

\* environment in ['dev', 'staging', 'prod']
EnvironmentAllowed(e) == e \in {"dev", "staging", "prod"}

\* ------------------------------------------------------------------------
\* File modes are sets of permission bits; a file created with mode m under
\* umask u gets m \ u.
\* ------------------------------------------------------------------------
Mode600 == {"ur", "uw"}
Mode666 == {"ur", "uw", "gr", "gw", "or", "ow"}
Mode750 == {"ur", "uw", "ux", "gr", "gx"}
Mode777 == {"ur", "uw", "ux", "gr", "gw", "gx", "or", "ow", "ox"}
Umask022 == {"gw", "ow"}
Umask077 == {"gr", "gw", "gx", "or", "ow", "ox"}

VARIABLES
    \* ---- TerraformMCPServer and the file system / processes it drives
    active_plans,   \* plan id -> [workspace_path, user_id, owner call]
    calls,          \* engine call number -> the call's frame
    nextCall,       \* number of the next engine call to be issued
    dirs,           \* directories the engine has created (resolved path) -> mode
    symlinks,       \* symbolic links on disk: path -> the resolved path it points to
    direct,         \* the last direct call of _create_workspace / _run_terraform_command
    nDirect,        \* number of such direct calls so far
    configs,        \* workspaces holding a main.tf
    credFiles,      \* credential files on disk (named by creating call) -> mode
    umask,          \* the engine process's file-creation mask
    procs,          \* external processes spawned so far
    credsRead,      \* calls that retrieved credentials
    \* ---- MCPClient, its transport sessions and the server behind them
    websocket,      \* self.websocket: 0 for None, else the number of a session
    is_connected,   \* self.is_connected
    available_tools, \* self.available_tools (its keys)
    transports,     \* session -> [open, inbox, initialized, discovered]
    nSessions,      \* sessions opened so far
    sent,           \* requests the client has written to a transport
    answered,       \* the responses the server has sent: [id, ok, late]
    timed_out_ids,  \* ids of the requests whose wait ended by timeout
    nextId,         \* the next fresh request id (uuid4)
    tasks,          \* caller -> the frame of its call_tool invocation
    pending_requests, \* self.pending_requests (its keys)
    nOdd,           \* unsolicited messages the server has sent so far
    codec,          \* one wire message taken through decoding and encoding
    \* ---- MCPConnectionPool
    available_connections,  \* self.available_connections (a list of clients)
    in_use_connections,     \* self.in_use_connections (a set of clients)
    client_connected,       \* client -> its is_connected
    client_transport,       \* client -> state of its websocket: none, open, lost, closed
    nClients,               \* MCPClient objects the pool has created
    holders,                \* pool user -> the frame of its get_client / the client it holds
    \* ---- InfraAgent
    pending_actions,        \* self.pending_actions: action id -> [plan, user_id]
    nextAction,             \* the next fresh action id (uuid4)
    runs,                   \* agent request -> the frame of its handler
    issued                  \* the apply_infrastructure tool calls issued, by action id

helperVars == <<symlinks, direct, nDirect>>

engineVars == <<active_plans, calls, nextCall, dirs, configs, credFiles, umask, procs, credsRead,
                helperVars>>

faultVars == <<nOdd>>

codecVars == <<codec>>

waiterVars == <<pending_requests>>

clientVars == <<websocket, is_connected, available_tools, transports, nSessions, sent, answered,
                timed_out_ids, nextId, tasks, waiterVars, faultVars, codecVars>>

poolVars == <<available_connections, in_use_connections, client_connected, client_transport,
              nClients, holders>>

agentVars == <<pending_actions, nextAction, runs, issued>>

vars == <<engineVars, clientVars, poolVars, agentVars>>

\* ------------------------------------------------------------------------
\* Engine
\* ------------------------------------------------------------------------
CallIds == 1..MaxCalls

\* {'success': False, 'error': msg}
Failure(msg) == [success |-> FALSE, error |-> msg, plan_id |-> 0, resources_to_create |-> 0]

\* {'success': True, 'plan': {'id': ..., 'resources_to_create': ...}}
PlanSuccess(p, n) == [success |-> TRUE, error |-> "", plan_id |-> p, resources_to_create |-> n]

\* {'success': True, 'outputs': ...}
ApplySuccess == [success |-> TRUE, error |-> "", plan_id |-> 0, resources_to_create |-> 0]

NoCall == [kind |-> "none", pc |-> "idle", user_id |-> <<>>, environment |-> "",
           plan_id |-> 0, workspace |-> <<>>, creates |-> 0, init_exit |-> "none", plan_exit |-> "none",
           plan_json |-> "none", outputs |-> "none",
           pending |-> Failure(""), result |-> Failure("")]

\* A path is the sequence of its components below the file-system root.
\* Path(self.workspace_dir).resolve(), a directory beside it whose name
\* begins with the same characters, and a directory elsewhere
Base == <<"workspaces">>
SiblingDir == <<"workspaces-old">>
OutsideDir == <<"etc">>

\* directories that exist without the engine having created them
PreExisting == {<<>>, Base, SiblingDir, OutsideDir}

\* one directory name for every user
UserDirNameShared(user_id) == "user"

\* f"user-{user_id}": the directory name of a user id
UserDirName(user_id) ==
    CASE user_id = UidA -> "user-a"
      [] user_id = UidB -> "user-b"
      [] user_id = UidNewline -> "user-a-newline"
      [] user_id = UidUuid -> "user-uuid"
      [] OTHER -> "user-other"

\* workspace_base / f"user-{user_id}" / environment
WorkspacePath(user_id, environment) == Base \o <<UserDirName(user_id), environment>>

\* Path.resolve(): `..` steps are taken and symbolic links are followed
RECURSIVE ResolveFrom(_, _, _)
ResolveFrom(links, done, rest) ==
    IF rest = <<>> THEN done
    ELSE LET step == IF Head(rest) = ".."
                     THEN (IF done = <<>> THEN done ELSE SubSeq(done, 1, Len(done) - 1))
                     ELSE Append(done, Head(rest))
             real == IF step \in DOMAIN links THEN links[step] ELSE step
         IN  ResolveFrom(links, real, Tail(rest))

Resolve(path) == ResolveFrom(symlinks, <<>>, path)

\* the pairs (name, prefix) of distinct component names where name begins
\* with the characters of prefix
NamePrefixes == {<<"workspaces-old", "workspaces">>}

\* str(path).startswith(str(base)): a comparison of the two strings
StrStartsWith(path, base) ==
    /\ Len(path) >= Len(base)
    /\ \A i \in 1..(Len(base) - 1) : path[i] = base[i]
    /\ \/ path[Len(base)] = base[Len(base)]
       \/ <<path[Len(base)], base[Len(base)]>> \in NamePrefixes

\* path.relative_to(base) does not raise: base is path or an ancestor of it
RelativeTo(path, base) == Len(path) >= Len(base) /\ SubSeq(path, 1, Len(base)) = base

\* Path.exists()
Exists(path) == path \in PreExisting \/ path \in DOMAIN dirs

\* the ancestors of a resolved path that mkdir(parents=True) has to create
MissingParents(path) == {SubSeq(path, 1, n) : n \in 1..(Len(path) - 1)} \ (PreExisting \cup DOMAIN dirs)

\* _create_workspace(user_id, environment): "ok", or the error it raises
CreateWorkspaceOutcome(user_id, environment) ==
    IF ~MatchUserId(user_id) THEN "Invalid user_id format"
    ELSE IF ~EnvironmentAllowed(environment) THEN "Invalid environment"
    ELSE IF ~StrStartsWith(Resolve(WorkspacePath(user_id, environment)), Base)
    THEN "Invalid workspace path"
    ELSE "ok"

\* the mode of the workspace directory when os.chmod is left out
ChmodWorkspaceSkipped(mode) == mode

\* os.chmod(workspace_path, 0o750): the mode afterwards, whatever it was
ChmodWorkspace(mode) == Mode750

\* workspace_path.mkdir(parents=True, exist_ok=True, mode=0o750) and
\* os.chmod(workspace_path, 0o750): the directories on disk afterwards.
\* mkdir leaves an existing directory as it is and creates a new one with
\* the given mode under the umask; missing parents are created with the
\* default mode under the umask.
DirsAfterMkdir(path) ==
    LET real == Resolve(path)
        made == MissingParents(real)
    IN  [d \in (DOMAIN dirs) \cup made \cup {real} |->
            IF d = real
            THEN ChmodWorkspace(IF real \in DOMAIN dirs THEN dirs[real] ELSE Mode750 \ umask)
            ELSE IF d \in made THEN Mode777 \ umask
            ELSE dirs[d]]

\* no direct call of a helper has been made
NoDirect == [fn |-> "none", cmd |-> <<>>, cwd |-> <<>>, user_id |-> <<>>, environment |-> "",
             outcome |-> "none"]

\* TerraformMCPServer() on a disk where it has created nothing yet
FreshEngine ==
    /\ active_plans = <<>>
    /\ calls = [c \in CallIds |-> NoCall]
    /\ nextCall = 1
    /\ dirs = <<>>
    /\ direct = NoDirect
    /\ nDirect = 0
    /\ configs = {}
    /\ credFiles = <<>>
    /\ umask = Umask022
    /\ procs = {}
    /\ credsRead = {}

\* ... and no symbolic links below the base directory
EngineInit == FreshEngine /\ symlinks = <<>>

\* the call returns `res` to its caller; its local variables end with it
Return(c, res) ==
    calls' = [calls EXCEPT ![c].pc = "done", ![c].result = res,
                           ![c].workspace = NoCall.workspace, ![c].creates = NoCall.creates,
                           ![c].init_exit = NoCall.init_exit, ![c].plan_exit = NoCall.plan_exit,
                           ![c].plan_json = NoCall.plan_json, ![c].outputs = NoCall.outputs,
                           ![c].pending = NoCall.pending]

\* the call moves on to its next await
Goto(c, pc) ==
    calls' = [calls EXCEPT ![c].pc = pc]

\* the call leaves the inner try block with `res` and runs the finally clause
ToCleanup(c, res) ==
    calls' = [calls EXCEPT ![c].pc = "cleanup", ![c].pending = res]

\* calls that have been invoked and have not returned
InFlight == {c \in CallIds : calls[c].pc \notin {"idle", "done"}}

\* plan ids a caller can present: those returned by a successful plan (uuid4
\* values are not guessable), or an id that names no plan (the call's own number)
KnownPlanIds(c) ==
    {q \in CallIds : calls[q].pc = "done" /\ calls[q].kind = "plan" /\ calls[q].result.success} \cup {c}

\* a caller invokes plan_infrastructure(resources, region, environment, user_id)
StartPlan(c, u, e) ==
    /\ c = nextCall
    /\ Cardinality(InFlight) < MaxInFlight
    /\ calls[c].pc = "idle"
    /\ nextCall' = nextCall + 1
    /\ calls' = [calls EXCEPT ![c] = [NoCall EXCEPT !.kind = "plan", !.pc = "p_workspace",
                                                     !.user_id = u, !.environment = e]]
    /\ UNCHANGED <<active_plans, dirs, configs, credFiles, umask, procs, credsRead>>
    /\ UNCHANGED <<helperVars, clientVars, poolVars, agentVars>>

\* a caller invokes apply_infrastructure(plan_id, user_id)
StartApply(c, p, u) ==
    /\ c = nextCall
    /\ Cardinality(InFlight) < MaxInFlight
    /\ p \in KnownPlanIds(c)
    /\ calls[c].pc = "idle"
    /\ nextCall' = nextCall + 1
    /\ calls' = [calls EXCEPT ![c] = [NoCall EXCEPT !.kind = "apply", !.pc = "a_check",
                                                     !.user_id = u, !.plan_id = p]]
    /\ UNCHANGED <<active_plans, dirs, configs, credFiles, umask, procs, credsRead>>
    /\ UNCHANGED <<helperVars, clientVars, poolVars, agentVars>>

\* _create_workspace: validation, then mkdir(parents, exist_ok, 0o750) and chmod
PlanCreateWorkspace(c) ==
    /\ calls[c].pc = "p_workspace"
    /\ LET u == calls[c].user_id
           e == calls[c].environment
           w == WorkspacePath(u, e)
           outcome == CreateWorkspaceOutcome(u, e)
       IN  IF outcome # "ok"
           THEN /\ Return(c, Failure(outcome))
                /\ UNCHANGED dirs
           ELSE /\ dirs' = DirsAfterMkdir(w)
                /\ calls' = [calls EXCEPT ![c].pc = "p_config", ![c].workspace = w]
    /\ UNCHANGED <<active_plans, nextCall, configs, credFiles, umask, procs, credsRead>>
    /\ UNCHANGED <<helperVars, clientVars, poolVars, agentVars>>

\* _generate_terraform_config (template rendering may raise) and the write of main.tf
PlanWriteConfig(c) ==
    /\ calls[c].pc = "p_config"
    /\ \E rendered \in BOOLEAN :
          IF rendered
          THEN /\ configs' = configs \cup {calls[c].workspace}
               /\ Goto(c, "p_credentials")
          ELSE /\ Return(c, Failure("template error"))
               /\ UNCHANGED configs
    /\ UNCHANGED <<active_plans, nextCall, dirs, credFiles, umask, procs, credsRead>>
    /\ UNCHANGED <<helperVars, clientVars, poolVars, agentVars>>

\* get_user_credentials(user_id): raises ValueError when the user has none
GetCredentials(c) ==
    /\ calls[c].pc \in {"p_credentials", "a_credentials"}
    /\ credsRead' = credsRead \cup {c}
    /\ \E found \in BOOLEAN :
          IF found
          THEN Goto(c, IF calls[c].kind = "plan" THEN "p_credfile" ELSE "a_credfile")
          ELSE Return(c, Failure("No credentials found"))
    /\ UNCHANGED <<active_plans, nextCall, dirs, configs, credFiles, umask, procs>>
    /\ UNCHANGED <<helperVars, clientVars, poolVars, agentVars>>

\* _create_secure_credentials_file: os.umask(0o077), open(path, 'w'),
\* config.write(f), os.chmod(path, 0o600).  It runs before the try/finally
\* that cleans up, so an error raised here goes straight to the outer except.
CreateCredentialsFile(c) ==
    /\ calls[c].pc \in {"p_credfile", "a_credfile"}
    /\ umask' = Umask077
    /\ \E outcome \in {"open_fails", "write_fails", "chmod_fails", "ok"} :
          CASE outcome = "open_fails" ->
                 /\ UNCHANGED credFiles
                 /\ Return(c, Failure("OSError"))
            [] outcome = "write_fails" ->
                 /\ credFiles' = (c :> (Mode666 \ umask')) @@ credFiles
                 /\ Return(c, Failure("OSError"))
            [] outcome = "chmod_fails" ->
                 /\ credFiles' = (c :> (Mode666 \ umask')) @@ credFiles
                 /\ Return(c, Failure("OSError"))
            [] outcome = "ok" ->
                 /\ credFiles' = (c :> Mode600) @@ credFiles
                 /\ Goto(c, IF calls[c].kind = "plan" THEN "p_init" ELSE "a_apply")
    /\ UNCHANGED <<active_plans, nextCall, dirs, configs, procs, credsRead>>
    /\ UNCHANGED <<helperVars, clientVars, poolVars, agentVars>>

AllowedCommands == {"init", "plan", "apply", "destroy", "output", "show", "validate"}

\* _run_terraform_command up to the spawn: cwd resolves under the base and
\* exists; `if cmd and cmd[0] not in allowed_commands: raise`
CommandOutcome(cmd, cwd) ==
    IF ~RelativeTo(Resolve(cwd), Base) THEN "Invalid workspace path"
    ELSE IF ~Exists(Resolve(cwd)) THEN "Workspace path does not exist"
    ELSE IF cmd # <<>> /\ cmd[1] \notin AllowedCommands THEN "Terraform command not allowed"
    ELSE "spawn"

CommandAccepted(cmd, cwd) == CommandOutcome(cmd, cwd) = "spawn"

\* subprocess.run(['terraform'] + cmd, cwd=..., env=..., timeout=300)
Spawn(c, cmd, cwd) ==
    procs' = procs \cup {[call |-> c, cmd |-> cmd, cwd |-> Resolve(cwd),
                           credentials |-> c \in DOMAIN credFiles]}

\* what a spawned process can do: exit with a code, or exceed the timeout
ExitCodes == {0, 1, 2}

\* a helper that takes every exit for a success
CommandSucceededAlways(rc, timed_out) == TRUE

\* _run_terraform_command after the spawn: returncode != 0 raises, a
\* timeout raises, otherwise stdout is returned
CommandSucceeded(rc, timed_out) == ~timed_out /\ rc = 0

CommandError(timed_out) ==
    IF timed_out THEN "Terraform command timed out after 5 minutes"
    ELSE "Terraform command failed"

\* how a terraform process (init, plan) ended: its exit status, or the timeout
PlanExit(rc, timed_out) ==
    IF timed_out THEN "timeout" ELSE IF rc = 0 THEN "exit_0" ELSE IF rc = 1 THEN "exit_1" ELSE "exit_2"

\* await self._run_terraform_command(['init'], workspace_path, env_vars)
PlanRunInit(c) ==
    /\ calls[c].pc = "p_init"
    /\ IF CommandAccepted(<<"init">>, calls[c].workspace)
       THEN /\ Spawn(c, <<"init">>, calls[c].workspace)
            /\ \E rc \in ExitCodes, timed_out \in BOOLEAN :
                  IF CommandSucceeded(rc, timed_out)
                  THEN calls' = [calls EXCEPT ![c].pc = "p_plan",
                                              ![c].init_exit = PlanExit(rc, timed_out)]
                  ELSE calls' = [calls EXCEPT ![c].pc = "cleanup",
                                              ![c].pending = Failure(CommandError(timed_out)),
                                              ![c].init_exit = PlanExit(rc, timed_out)]
       ELSE /\ UNCHANGED procs
            /\ ToCleanup(c, Failure("Invalid workspace path"))
    /\ UNCHANGED <<active_plans, nextCall, dirs, configs, credFiles, umask, credsRead>>
    /\ UNCHANGED <<helperVars, clientVars, poolVars, agentVars>>

\* await self._run_terraform_command(['plan', '-out', plan_file, '-detailed-exitcode'], ...)
\* terraform plan -detailed-exitcode exits 0 when the plan is empty, 1 on
\* error and 2 when the plan holds changes; `creates` is the number of
\* resource changes of the artifact whose actions include create, and
\* `plan_exit` is how the process ended.
PlanRunPlan(c) ==
    /\ calls[c].pc = "p_plan"
    /\ IF CommandAccepted(<<"plan", "-out", "-detailed-exitcode">>, calls[c].workspace)
       THEN /\ Spawn(c, <<"plan", "-out", "-detailed-exitcode">>, calls[c].workspace)
            /\ \E rc \in ExitCodes, timed_out \in BOOLEAN, n \in 0..1 :
                  /\ (timed_out \/ rc # 2) => n = 0
                  /\ IF CommandSucceeded(rc, timed_out)
                     THEN calls' = [calls EXCEPT ![c].pc = "p_show", ![c].creates = n,
                                                 ![c].plan_exit = PlanExit(rc, timed_out)]
                     ELSE calls' = [calls EXCEPT ![c].pc = "cleanup",
                                                 ![c].pending = Failure(CommandError(timed_out)),
                                                 ![c].creates = n,
                                                 ![c].plan_exit = PlanExit(rc, timed_out)]
       ELSE /\ UNCHANGED procs
            /\ ToCleanup(c, Failure("Invalid workspace path"))
    /\ UNCHANGED <<active_plans, nextCall, dirs, configs, credFiles, umask, credsRead>>
    /\ UNCHANGED <<helperVars, clientVars, poolVars, agentVars>>

\* _get_plan_json and _get_terraform_outputs: the parsed output of the
\* command, or {} when the command or json.loads fails
PlanJson(parsed) == IF parsed THEN "parsed" ELSE "empty"

\* _count_resources(plan_json, 'create'): 0 for an empty plan_json
CountResources(parsed, n) == IF parsed THEN n ELSE 0

\* _get_plan_json (`terraform show -json`; any failure yields {}), then the
\* new entry of active_plans under a fresh uuid4 and the success result
PlanShowAndRecord(c) ==
    /\ calls[c].pc = "p_show"
    /\ IF CommandAccepted(<<"show", "-json">>, calls[c].workspace)
       THEN /\ Spawn(c, <<"show", "-json">>, calls[c].workspace)
            /\ \E rc \in ExitCodes, timed_out \in BOOLEAN, json_ok \in BOOLEAN :
                  LET parsed == CommandSucceeded(rc, timed_out) /\ json_ok
                  IN  calls' = [calls EXCEPT ![c].pc = "cleanup",
                                             ![c].plan_json = PlanJson(parsed),
                                             ![c].pending = PlanSuccess(c, CountResources(parsed, calls[c].creates))]
       ELSE /\ UNCHANGED procs
            /\ calls' = [calls EXCEPT ![c].pc = "cleanup",
                                       ![c].plan_json = PlanJson(FALSE),
                                       ![c].pending = PlanSuccess(c, CountResources(FALSE, calls[c].creates))]
    /\ active_plans' = (c :> [workspace_path |-> calls[c].workspace,
                              user_id |-> calls[c].user_id]) @@ active_plans
    /\ UNCHANGED <<nextCall, dirs, configs, credFiles, umask, credsRead>>
    /\ UNCHANGED <<helperVars, clientVars, poolVars, agentVars>>

\* _cleanup_credentials_file in the finally clause: if the file exists it is
\* overwritten and unlinked; an error of either step is logged and swallowed.
\* Then the call returns what it left the try block with.
CleanupCredentialsFile(c) ==
    /\ calls[c].pc = "cleanup"
    /\ IF c \in DOMAIN credFiles
       THEN \E outcome \in {"open_fails", "unlink_fails", "ok"} :
               IF outcome = "ok"
               THEN credFiles' = [f \in (DOMAIN credFiles) \ {c} |-> credFiles[f]]
               ELSE UNCHANGED credFiles
       ELSE UNCHANGED credFiles
    /\ Return(c, calls[c].pending)
    /\ UNCHANGED <<active_plans, nextCall, dirs, configs, umask, procs, credsRead>>
    /\ UNCHANGED <<helperVars, clientVars, poolVars, agentVars>>

\* an ownership test that lets every caller through
PlanOwnedByAnyone(p, u) == TRUE

\* `plan_info['user_id'] != user_id` (negated)
PlanOwnedBy(p, u) == active_plans[p].user_id = u

\* apply_infrastructure up to its first await: the lookup in active_plans and
\* the comparison of the plan's user_id with the caller's
ApplyCheck(c) ==
    /\ calls[c].pc = "a_check"
    /\ LET p == calls[c].plan_id
       IN  IF p \notin DOMAIN active_plans
           THEN Return(c, Failure("Plan not found"))
           ELSE IF ~PlanOwnedBy(p, calls[c].user_id)
           THEN Return(c, Failure("Unauthorized"))
           ELSE calls' = [calls EXCEPT ![c].pc = "a_credentials",
                                       ![c].workspace = active_plans[p].workspace_path]
    /\ UNCHANGED <<active_plans, nextCall, dirs, configs, credFiles, umask, procs, credsRead>>
    /\ UNCHANGED <<helperVars, clientVars, poolVars, agentVars>>

\* await self._run_terraform_command(['apply', basename(plan_file)], ...)
ApplyRunApply(c) ==
    /\ calls[c].pc = "a_apply"
    /\ IF CommandAccepted(<<"apply", "planfile">>, calls[c].workspace)
       THEN /\ Spawn(c, <<"apply", "planfile">>, calls[c].workspace)
            /\ \E rc \in ExitCodes, timed_out \in BOOLEAN :
                  IF CommandSucceeded(rc, timed_out)
                  THEN Goto(c, "a_outputs")
                  ELSE ToCleanup(c, Failure(CommandError(timed_out)))
       ELSE /\ UNCHANGED procs
            /\ ToCleanup(c, Failure("Invalid workspace path"))
    /\ UNCHANGED <<active_plans, nextCall, dirs, configs, credFiles, umask, credsRead>>
    /\ UNCHANGED <<helperVars, clientVars, poolVars, agentVars>>

\* _get_terraform_outputs (any failure yields {}), then
\* `del self.active_plans[plan_id]`, which raises KeyError when the entry is
\* gone, and the success result
ApplyOutputsAndDelete(c) ==
    /\ calls[c].pc = "a_outputs"
    /\ \E rc \in ExitCodes, timed_out \in BOOLEAN, json_ok \in BOOLEAN :
          LET spawned == CommandAccepted(<<"output", "-json">>, calls[c].workspace)
              outputs == PlanJson(spawned /\ CommandSucceeded(rc, timed_out) /\ json_ok)
              p == calls[c].plan_id
          IN  /\ IF spawned THEN Spawn(c, <<"output", "-json">>, calls[c].workspace)
                            ELSE UNCHANGED procs
              /\ IF p \in DOMAIN active_plans
                 THEN /\ active_plans' = [q \in (DOMAIN active_plans) \ {p} |-> active_plans[q]]
                      /\ calls' = [calls EXCEPT ![c].pc = "cleanup", ![c].outputs = outputs,
                                                 ![c].pending = ApplySuccess]
                 ELSE /\ UNCHANGED active_plans
                      /\ calls' = [calls EXCEPT ![c].pc = "cleanup", ![c].outputs = outputs,
                                                 ![c].pending = Failure("KeyError")]
    /\ UNCHANGED <<nextCall, dirs, configs, credFiles, umask, credsRead>>
    /\ UNCHANGED <<helperVars, clientVars, poolVars, agentVars>>

EngineNext ==
    \/ \E c \in CallIds, in \in PlanInputs : StartPlan(c, in[1], in[2])
    \/ \E c \in CallIds, p \in CallIds, u \in {UidA, UidB} : StartApply(c, p, u)
    \/ \E c \in CallIds : PlanCreateWorkspace(c)
    \/ \E c \in CallIds : PlanWriteConfig(c)
    \/ \E c \in CallIds : GetCredentials(c)
    \/ \E c \in CallIds : CreateCredentialsFile(c)
    \/ \E c \in CallIds : PlanRunInit(c)
    \/ \E c \in CallIds : PlanRunPlan(c)
    \/ \E c \in CallIds : PlanShowAndRecord(c)
    \/ \E c \in CallIds : ApplyCheck(c)
    \/ \E c \in CallIds : ApplyRunApply(c)
    \/ \E c \in CallIds : ApplyOutputsAndDelete(c)
    \/ \E c \in CallIds : CleanupCredentialsFile(c)

\* the engine called for two environments of one user and for a second user
WorkspaceInputs == {<<UidA, "dev">>, <<UidA, "prod">>, <<UidB, "dev">>}

WorkspaceNext ==
    \/ \E c \in CallIds, in \in WorkspaceInputs : StartPlan(c, in[1], in[2])
    \/ \E c \in CallIds, p \in CallIds, u \in {UidA, UidB} : StartApply(c, p, u)
    \/ \E c \in CallIds : PlanCreateWorkspace(c)
    \/ \E c \in CallIds : PlanWriteConfig(c)
    \/ \E c \in CallIds : GetCredentials(c)
    \/ \E c \in CallIds : CreateCredentialsFile(c)
    \/ \E c \in CallIds : PlanRunInit(c)
    \/ \E c \in CallIds : PlanRunPlan(c)
    \/ \E c \in CallIds : PlanShowAndRecord(c)
    \/ \E c \in CallIds : ApplyCheck(c)
    \/ \E c \in CallIds : ApplyRunApply(c)
    \/ \E c \in CallIds : ApplyOutputsAndDelete(c)
    \/ \E c \in CallIds : CleanupCredentialsFile(c)

\* ------------------------------------------------------------------------
\* The engine's helpers _create_workspace and _run_terraform_command called
\* on their own, with arguments the engine's operations do not pass
\* ------------------------------------------------------------------------

\* the disks the helpers are run on: no symbolic link, or the directory of
\* user b being a link to a directory elsewhere or to one beside the base
SymlinkChoices ==
    {<<>>,
     (Base \o <<UserDirName(UidB)>>) :> OutsideDir,
     (Base \o <<UserDirName(UidB)>>) :> SiblingDir}

\* argument lists and working directories _run_terraform_command is called with
CmdInputs == {<<>>, <<"init">>, <<"destroy", "-auto-approve">>, <<"console">>}

CwdInputs ==
    {WorkspacePath(UidA, "dev"), WorkspacePath(UidB, "dev"), Base \o <<UserDirName(UidA)>>,
     Base \o <<"..", "etc">>, OutsideDir}

\* await self._create_workspace(user_id, environment)
DirectCreateWorkspace(user_id, environment) ==
    /\ nDirect < MaxDirect
    /\ nDirect' = nDirect + 1
    /\ LET outcome == CreateWorkspaceOutcome(user_id, environment)
       IN  /\ direct' = [NoDirect EXCEPT !.fn = "_create_workspace", !.user_id = user_id,
                                         !.environment = environment, !.outcome = outcome,
                                         !.cwd = IF outcome = "ok"
                                                 THEN WorkspacePath(user_id, environment)
                                                 ELSE <<>>]
           /\ dirs' = IF outcome = "ok" THEN DirsAfterMkdir(WorkspacePath(user_id, environment))
                      ELSE dirs
    /\ UNCHANGED <<active_plans, calls, nextCall, configs, credFiles, umask, procs, credsRead, symlinks>>
    /\ UNCHANGED <<clientVars, poolVars, agentVars>>

\* await self._run_terraform_command(cmd, cwd, env)
DirectRunCommand(cmd, cwd) ==
    /\ nDirect < MaxDirect
    /\ nDirect' = nDirect + 1
    /\ LET outcome == CommandOutcome(cmd, cwd)
       IN  /\ direct' = [NoDirect EXCEPT !.fn = "_run_terraform_command", !.cmd = cmd, !.cwd = cwd,
                                         !.outcome = outcome]
           /\ IF outcome = "spawn" THEN Spawn(0, cmd, cwd) ELSE UNCHANGED procs
    /\ UNCHANGED <<active_plans, calls, nextCall, dirs, configs, credFiles, umask, credsRead, symlinks>>
    /\ UNCHANGED <<clientVars, poolVars, agentVars>>

HelperNext ==
    \/ \E in \in PlanInputs \cup (UserIdInputs \X {"dev"}) : DirectCreateWorkspace(in[1], in[2])
    \/ \E cmd \in CmdInputs, cwd \in CwdInputs : DirectRunCommand(cmd, cwd)

\* ------------------------------------------------------------------------
\* MCPClient
\* ------------------------------------------------------------------------
Tasks == 1..MaxTasks
Sessions == 1..MaxSessions

\* the tool every call_tool of the model names
Tool == "apply_infrastructure"

\* Python's None, and an empty JSON object
NoneValue == [none |-> TRUE]
EmptyObject == [empty |-> TRUE]

\* `if response.error:` -- None and {} are falsy
Truthy(v) == v # NoneValue /\ v # EmptyObject

\* class MessageType(Enum)
MessageTypes == {"request", "response", "notification", "error"}

NoOutcome == [kind |-> "none", result |-> NoneValue]
Raised(kind) == [kind |-> kind, result |-> NoneValue]
Returned(result) == [kind |-> "result", result |-> result]

IdleTask == [pc |-> "idle", id |-> 0, rws |-> 0, outcome |-> NoOutcome]

WaitStates == {"init_wait", "list_wait", "call_wait"}

\* the states of a call_tool invocation that are inside connect()
ConnectStates == {"opening", "init_wait", "list_wait"}

FreshClient ==
    /\ websocket = 0
    /\ is_connected = FALSE
    /\ available_tools = {}
    /\ transports = [s \in Sessions |-> [open |-> FALSE, inbox |-> <<>>,
                                         initialized |-> FALSE, discovered |-> FALSE]]
    /\ nSessions = 0
    /\ sent = {}
    /\ answered = {}
    /\ timed_out_ids = {}
    /\ nextId = 1
    /\ tasks = [t \in Tasks |-> IdleTask]
    /\ pending_requests = {}
    /\ nOdd = 0

\* ---- the wire form of a message and its MCPMessage

\* a JSON object is a record over the six keys; a key the object does not
\* have holds Absent, a key whose value is JSON null holds NoneValue
Absent == [absent |-> TRUE]

SomeObject == [value |-> 1]

\* a JSON string
JsonString(s) == [str |-> s]

\* the wire messages the codec is given
WireMessages ==
    [id : {Absent, NoneValue, JsonString("r1")},
     type : {Absent, NoneValue, JsonString("bogus")} \cup {JsonString(t) : t \in MessageTypes},
     method : {Absent, NoneValue, JsonString("tools/call")},
     params : {Absent, NoneValue, EmptyObject, SomeObject},
     result : {Absent, NoneValue, EmptyObject, SomeObject},
     error : {Absent, NoneValue, EmptyObject, SomeObject}]

\* message_data.get(key, default)
Get(v, default) == IF v = Absent THEN default ELSE v

\* a member of the enum MessageType, and its .value
Member(value) == [member |-> value.str]
ValueOf(m) == JsonString(m.member)

\* MessageType(x) finds a member
IsMemberValue(x) == \E t \in MessageTypes : x = JsonString(t)

\* receive_messages: MCPMessage(id=message_data.get("id"), type=MessageType(...), ...);
\* MessageType(x) raises ValueError for an x that is no member's value
DecodeMessage(w) ==
    IF ~IsMemberValue(Get(w.type, JsonString("response")))
    THEN [raised |-> "value_error"]
    ELSE [id |-> Get(w.id, NoneValue),
          type |-> Member(Get(w.type, JsonString("response"))),
          method |-> Get(w.method, NoneValue),
          params |-> Get(w.params, NoneValue),
          result |-> Get(w.result, NoneValue),
          error |-> Get(w.error, NoneValue)]

\* _send_message: {k: v for k, v in asdict(message).items() if v is not None}
KeepFieldAlways(v) == TRUE

KeepField(v) == v # NoneValue

Emit(v) == IF KeepField(v) THEN v ELSE Absent

\* _send_message: the dictionary given to json.dumps; the enum member is
\* replaced by its value
EncodeMessage(m) ==
    [id |-> Emit(m.id),
     type |-> IF KeepField(m.type) THEN ValueOf(m.type) ELSE Absent,
     method |-> Emit(m.method),
     params |-> Emit(m.params),
     result |-> Emit(m.result),
     error |-> Emit(m.error)]

NoCodec == [pc |-> "idle", wire |-> Absent, message |-> NoneValue, out |-> Absent]

ClientInit == FreshClient /\ codec = NoCodec

CodecInit == \E w \in WireMessages : codec = [pc |-> "wire", wire |-> w, message |-> NoneValue, out |-> Absent]

\* the received text is decoded
Decode ==
    /\ codec.pc = "wire"
    /\ LET m == DecodeMessage(codec.wire)
       IN  codec' = [codec EXCEPT !.pc = IF m = [raised |-> "value_error"] THEN "failed" ELSE "decoded",
                                  !.message = m]
    /\ UNCHANGED <<websocket, is_connected, available_tools, transports, nSessions, sent, answered,
                   timed_out_ids, nextId, tasks>>
    /\ UNCHANGED <<waiterVars, faultVars, engineVars, poolVars, agentVars>>

\* the decoded message is sent again
Encode ==
    /\ codec.pc = "decoded"
    /\ codec' = [codec EXCEPT !.pc = "encoded", !.out = EncodeMessage(codec.message)]
    /\ UNCHANGED <<websocket, is_connected, available_tools, transports, nSessions, sent, answered,
                   timed_out_ids, nextId, tasks>>
    /\ UNCHANGED <<waiterVars, faultVars, engineVars, poolVars, agentVars>>

CodecNext == Decode \/ Encode

\* the session a request id was sent on
SessionOf(id) == (CHOOSE r \in sent : r.id = id).session

\* initialize and tools/list sent on session s have both been answered successfully
HandshakeDone(tr, s) == tr[s].initialized /\ tr[s].discovered

\* _send_message: `if not self.websocket: raise`; websocket.send raises
\* ConnectionClosed on a closed transport
CanSend == websocket # 0 /\ transports[websocket].open

SendError == IF websocket = 0 THEN "not_connected" ELSE "connection_closed"

\* the MCPMessage of a request, as written to the transport by _send_message
Request(id, method, tr) ==
    [id |-> id, method |-> method, session |-> websocket, handshaken |-> HandshakeDone(tr, websocket)]

\* another task is blocked in recv() on session s
OtherReader(t, s) == \E o \in Tasks \ {t} : tasks[o].pc \in WaitStates /\ tasks[o].rws = s

\* the frames with which task t can enter `await self.websocket.recv()` for
\* request id in state pc: it blocks on the current websocket; where another
\* task is already blocked in recv on it, the transport library may instead
\* refuse the second reader with a RuntimeError
EnterRecv(t, id, pc) ==
    {[pc |-> pc, id |-> id, rws |-> websocket, outcome |-> NoOutcome]}
    \cup (IF OtherReader(t, websocket)
          THEN {[pc |-> "done", id |-> id, rws |-> 0, outcome |-> Raised("recv_busy")]}
          ELSE {})

\* the call ends with `outcome`
Finish(t, outcome) ==
    tasks' = [tasks EXCEPT ![t] = [pc |-> "done", id |-> tasks[t].id, rws |-> 0, outcome |-> outcome]]

\* call_tool lines 81-101: the check of available_tools, the fresh request
\* id, _send_message and the entry into _wait_for_response
SendToolCall(t, tools, tr) ==
    IF Tool \notin tools
    THEN /\ Finish(t, Raised("tool_not_available"))
         /\ UNCHANGED <<sent, nextId>>
    ELSE IF ~CanSend
    THEN /\ Finish(t, Raised(SendError))
         /\ UNCHANGED <<sent, nextId>>
    ELSE /\ sent' = sent \cup {Request(nextId, "tools/call", tr)}
         /\ nextId' = nextId + 1
         /\ \E f \in EnterRecv(t, nextId, "call_wait") : tasks' = [tasks EXCEPT ![t] = f]

\* call_tool is invoked: `if not self.is_connected: await self.connect()`
CallTool(t) ==
    /\ tasks[t].pc \in {"idle", "done"}
    /\ IF ~is_connected
       THEN /\ nextId + 2 <= MaxRequests
            /\ tasks' = [tasks EXCEPT ![t] = [IdleTask EXCEPT !.pc = "opening"]]
            /\ UNCHANGED <<sent, nextId>>
       ELSE /\ nextId <= MaxRequests
            /\ SendToolCall(t, available_tools, transports)
    /\ UNCHANGED <<websocket, is_connected, available_tools, transports, nSessions, answered, timed_out_ids>>
    /\ UNCHANGED <<waiterVars, faultVars, codecVars, engineVars, poolVars, agentVars>>

\* connect(): websockets.connect returned; self.websocket and
\* self.is_connected are set and _initialize_session sends `initialize`
ConnectOpened(t) ==
    /\ tasks[t].pc = "opening"
    /\ nSessions < MaxSessions
    /\ LET s == nSessions + 1
       IN  /\ nSessions' = s
           /\ websocket' = s
           /\ is_connected' = TRUE
           /\ transports' = [transports EXCEPT ![s].open = TRUE]
           /\ sent' = sent \cup {[id |-> nextId, method |-> "initialize", session |-> s,
                                   handshaken |-> FALSE]}
           /\ nextId' = nextId + 1
           /\ tasks' = [tasks EXCEPT ![t] = [pc |-> "init_wait", id |-> nextId, rws |-> s,
                                             outcome |-> NoOutcome]]
    /\ UNCHANGED <<available_tools, answered, timed_out_ids>>
    /\ UNCHANGED <<waiterVars, faultVars, codecVars, engineVars, poolVars, agentVars>>

\* connect(): websockets.connect raised; `except: self.is_connected = False; raise`
ConnectRefused(t) ==
    /\ tasks[t].pc = "opening"
    /\ is_connected' = FALSE
    /\ Finish(t, Raised("connect_failed"))
    /\ UNCHANGED <<websocket, available_tools, transports, nSessions, sent, answered, timed_out_ids, nextId>>
    /\ UNCHANGED <<waiterVars, faultVars, codecVars, engineVars, poolVars, agentVars>>

\* an exception leaves the call; inside connect() the except clause first
\* sets self.is_connected = False
Raise(t, kind) ==
    /\ Finish(t, Raised(kind))
    /\ is_connected' = IF tasks[t].pc \in ConnectStates THEN FALSE ELSE is_connected

\* receive_messages read a message that is not the awaited response and
\* loops back to `await self.websocket.recv()`
ContinueReceiving(t) ==
    \E f \in EnterRecv(t, tasks[t].id, tasks[t].pc) :
        /\ tasks' = [tasks EXCEPT ![t] = f]
        /\ is_connected' = IF f.pc = "done" /\ tasks[t].pc \in ConnectStates
                            THEN FALSE ELSE is_connected

\* _initialize_session got its response, then _discover_tools sends tools/list
OnInitializeResponse(t, m, tr) ==
    IF Truthy(m.error)
    THEN /\ Raise(t, "initialize_failed")
         /\ transports' = tr
         /\ UNCHANGED <<available_tools, sent, nextId>>
    ELSE LET tr2 == [tr EXCEPT ![SessionOf(m.id)].initialized = TRUE]
         IN  /\ transports' = tr2
             /\ UNCHANGED available_tools
             /\ IF ~CanSend
                THEN /\ Raise(t, SendError)
                     /\ UNCHANGED <<sent, nextId>>
                ELSE /\ sent' = sent \cup {Request(nextId, "tools/list", tr2)}
                     /\ nextId' = nextId + 1
                     /\ \E f \in EnterRecv(t, nextId, "list_wait") :
                            /\ tasks' = [tasks EXCEPT ![t] = f]
                            /\ is_connected' = IF f.pc = "done" THEN FALSE ELSE is_connected

\* _discover_tools got its response: available_tools is replaced, connect()
\* returns and call_tool goes on to send its tools/call request
OnToolsListResponse(t, m, tr) ==
    IF Truthy(m.error)
    THEN /\ Raise(t, "discover_failed")
         /\ transports' = tr
         /\ UNCHANGED <<available_tools, sent, nextId>>
    ELSE IF m.result = NoneValue
    THEN /\ Raise(t, "attribute_error")
         /\ transports' = tr
         /\ UNCHANGED <<available_tools, sent, nextId>>
    ELSE LET tr2 == [tr EXCEPT ![SessionOf(m.id)].discovered = TRUE]
         IN  /\ transports' = tr2
             /\ available_tools' = m.result.tools
             /\ UNCHANGED is_connected
             /\ SendToolCall(t, m.result.tools, tr2)

\* call_tool got its response: `if response.error: raise` else return response.result
OnToolCallResponse(t, m, tr) ==
    /\ transports' = tr
    /\ IF Truthy(m.error)
       THEN Finish(t, Raised("tool_call_failed"))
       ELSE Finish(t, Returned(m.result))
    /\ UNCHANGED <<is_connected, available_tools, sent, nextId>>

\* a receive loop that takes whatever message comes next
MatchesAny(m, request_id) == TRUE

\* `if message.id == request_id: return message`
Matches(m, request_id) == m.id = request_id

\* one iteration of receive_messages: recv() returns the next message of the
\* transport the task is blocked on; json.loads, MCPMessage(...), the id test
Receive(t) ==
    /\ tasks[t].pc \in WaitStates
    /\ transports[tasks[t].rws].inbox # <<>>
    /\ LET s == tasks[t].rws
           m == Head(transports[s].inbox)
           tr == [transports EXCEPT ![s].inbox = Tail(@)]
       IN  IF ~m.json_ok
           THEN /\ ContinueReceiving(t)
                /\ transports' = tr
                /\ UNCHANGED <<available_tools, sent, nextId>>
           ELSE IF m.type \notin MessageTypes
           THEN /\ Raise(t, "value_error")
                /\ transports' = tr
                /\ UNCHANGED <<available_tools, sent, nextId>>
           ELSE IF ~Matches(m, tasks[t].id)
           THEN /\ ContinueReceiving(t)
                /\ transports' = tr
                /\ UNCHANGED <<available_tools, sent, nextId>>
           ELSE CASE tasks[t].pc = "init_wait" -> OnInitializeResponse(t, m, tr)
                  [] tasks[t].pc = "list_wait" -> OnToolsListResponse(t, m, tr)
                  [] tasks[t].pc = "call_wait" -> OnToolCallResponse(t, m, tr)
    /\ UNCHANGED <<websocket, nSessions, answered, timed_out_ids>>
    /\ UNCHANGED <<waiterVars, faultVars, codecVars, engineVars, poolVars, agentVars>>

\* asyncio.wait_for(receive_messages(), timeout) expires while the task is
\* blocked in recv() with nothing to read.  call_tool turns the TimeoutError
\* of its own wait into Exception("... timed out"); the TimeoutError of a
\* wait inside connect() leaves call_tool as it is.
WaitUnbounded(t) == FALSE

\* asyncio.wait_for(receive_messages(), timeout=timeout): the wait of task t
\* has a deadline
WaitBounded(t) == tasks[t].pc \in WaitStates

Timeout(t) ==
    /\ WaitBounded(t)
    /\ transports[tasks[t].rws].open
    /\ transports[tasks[t].rws].inbox = <<>>
    /\ Raise(t, IF tasks[t].pc = "call_wait" THEN "timed_out" ELSE "timeout_error")
    /\ timed_out_ids' = timed_out_ids \cup {tasks[t].id}
    /\ UNCHANGED <<websocket, available_tools, transports, nSessions, sent, answered, nextId>>
    /\ UNCHANGED <<waiterVars, faultVars, codecVars, engineVars, poolVars, agentVars>>

\* recv() raises ConnectionClosed: `raise Exception("Connection to MCP server lost")`
ConnectionLost(t) ==
    /\ tasks[t].pc \in WaitStates
    /\ ~transports[tasks[t].rws].open
    /\ transports[tasks[t].rws].inbox = <<>>
    /\ Raise(t, "connection_lost")
    /\ UNCHANGED <<websocket, available_tools, transports, nSessions, sent, answered, timed_out_ids, nextId>>
    /\ UNCHANGED <<waiterVars, faultVars, codecVars, engineVars, poolVars, agentVars>>

\* disconnect(): `if self.websocket: await self.websocket.close(); self.is_connected = False`
Disconnect ==
    /\ websocket # 0
    /\ transports[websocket].open
    /\ transports' = [transports EXCEPT ![websocket].open = FALSE]
    /\ is_connected' = FALSE
    /\ UNCHANGED <<websocket, available_tools, nSessions, sent, answered, timed_out_ids, nextId, tasks>>
    /\ UNCHANGED <<waiterVars, faultVars, codecVars, engineVars, poolVars, agentVars>>

\* ---- the server and the network

\* the result payload the server computes for a request
ResultFor(r) ==
    IF r.method = "tools/list" THEN [tools |-> {Tool}, value |-> 0]
    ELSE IF r.method = "initialize" THEN [tools |-> {}, value |-> 0]
    ELSE [tools |-> {}, value |-> r.id]

\* the wire message of a response
Response(id, result, error) ==
    [json_ok |-> TRUE, id |-> id, type |-> "response", result |-> result, error |-> error]

AnsweredIds == {a.id : a \in answered}

\* some call is still waiting for the response to request id
Awaited(id) == \E t \in Tasks : tasks[t].pc \in WaitStates /\ tasks[t].id = id

\* the server answers a request it has received, in any order
ServerRespond(r, ok) ==
    /\ r \in sent
    /\ r.id \notin AnsweredIds
    /\ transports[r.session].open
    /\ answered' = answered \cup {[id |-> r.id, ok |-> ok, late |-> ~Awaited(r.id)]}
    /\ transports' = [transports EXCEPT ![r.session].inbox =
            Append(@, IF ok THEN Response(r.id, ResultFor(r), NoneValue)
                            ELSE Response(r.id, NoneValue, [message |-> "failed"]))]
    /\ UNCHANGED <<websocket, is_connected, available_tools, nSessions, sent, timed_out_ids, nextId, tasks>>
    /\ UNCHANGED <<waiterVars, faultVars, codecVars, engineVars, poolVars, agentVars>>

\* the transport of a session is lost (server or network)
TransportLost(s) ==
    /\ transports[s].open
    /\ transports' = [transports EXCEPT ![s].open = FALSE]
    /\ UNCHANGED <<websocket, is_connected, available_tools, nSessions, sent, answered, timed_out_ids, nextId, tasks>>
    /\ UNCHANGED <<waiterVars, faultVars, codecVars, engineVars, poolVars, agentVars>>

\* ---- a server that also sends what the protocol does not allow

\* a wire message that is not the well-formed response to a request:
\* text that is not JSON, a message of an unknown kind, a notification
\* (no id)
OddMessage(kind) ==
    [json_ok |-> kind # "bad_json",
     id |-> 0,
     type |-> IF kind = "bad_kind" THEN "bogus" ELSE "notification",
     result |-> NoneValue, error |-> NoneValue]

OddKinds == {"bad_json", "bad_kind", "notification"}

\* the server writes such a message to an open session
ServerSendsOdd(s, kind) ==
    /\ transports[s].open
    /\ nOdd < MaxOdd
    /\ nOdd' = nOdd + 1
    /\ transports' = [transports EXCEPT ![s].inbox = Append(@, OddMessage(kind))]
    /\ UNCHANGED <<websocket, is_connected, available_tools, nSessions, sent, answered, timed_out_ids,
                   nextId, tasks>>
    /\ UNCHANGED <<waiterVars, codecVars, engineVars, poolVars, agentVars>>

\* a response with the id of the request but an irregular payload: neither
\* result nor error, or a result together with an empty error object
OddResponse(r, kind) ==
    IF kind = "no_result_no_error" THEN Response(r.id, NoneValue, NoneValue)
    ELSE Response(r.id, ResultFor(r), EmptyObject)

OddResponseKinds == {"no_result_no_error", "empty_error"}

\* the server answers a request with such a response
ServerRespondsOdd(r, kind) ==
    /\ r \in sent
    /\ r.id \notin AnsweredIds
    /\ transports[r.session].open
    /\ answered' = answered \cup {[id |-> r.id, ok |-> FALSE, late |-> ~Awaited(r.id)]}
    /\ transports' = [transports EXCEPT ![r.session].inbox = Append(@, OddResponse(r, kind))]
    /\ UNCHANGED <<websocket, is_connected, available_tools, nSessions, sent, timed_out_ids, nextId, tasks>>
    /\ UNCHANGED <<waiterVars, faultVars, codecVars, engineVars, poolVars, agentVars>>

\* the server keeps a session busy with messages that no waiting call
\* accepts: whenever a call is reading the session and has drained it, the
\* server writes another one
ServerKeepsSending(s, kind) ==
    /\ transports[s].open
    /\ \E t \in Tasks : tasks[t].pc \in WaitStates /\ tasks[t].rws = s
    /\ transports[s].inbox = <<>>
    /\ transports' = [transports EXCEPT ![s].inbox = Append(@, OddMessage(kind))]
    /\ UNCHANGED <<websocket, is_connected, available_tools, nSessions, sent, answered, timed_out_ids,
                   nextId, tasks>>
    /\ UNCHANGED <<waiterVars, faultVars, codecVars, engineVars, poolVars, agentVars>>

\* the deadline of asyncio.wait_for passes while messages are still
\* arriving: the receive loop is cancelled between two messages and what
\* has not been read stays on the transport
TimeoutWhileReceiving(t) ==
    /\ WaitBounded(t)
    /\ transports[tasks[t].rws].inbox # <<>>
    /\ Raise(t, IF tasks[t].pc = "call_wait" THEN "timed_out" ELSE "timeout_error")
    /\ timed_out_ids' = timed_out_ids \cup {tasks[t].id}
    /\ UNCHANGED <<websocket, available_tools, transports, nSessions, sent, answered, nextId>>
    /\ UNCHANGED <<waiterVars, faultVars, codecVars, engineVars, poolVars, agentVars>>

ClientNext ==
    \/ \E t \in Tasks : CallTool(t)
    \/ \E t \in Tasks : ConnectOpened(t)
    \/ \E t \in Tasks : ConnectRefused(t)
    \/ \E t \in Tasks : Receive(t)
    \/ \E t \in Tasks : Timeout(t)
    \/ \E t \in Tasks : ConnectionLost(t)
    \/ Disconnect
    \/ \E r \in sent, ok \in BOOLEAN : ServerRespond(r, ok)
    \/ \E s \in Sessions : TransportLost(s)

\* ------------------------------------------------------------------------
\* MCPConnectionPool
\* ------------------------------------------------------------------------
Holders == 1..MaxHolders
Clients == 1..MaxClients

IdleHolder == [pc |-> "idle", client |-> 0, last |-> "none"]

PoolInit ==
    /\ available_connections = <<>>
    /\ in_use_connections = {}
    /\ client_connected = [c \in Clients |-> FALSE]
    /\ client_transport = [c \in Clients |-> "none"]
    /\ nClients = 0
    /\ holders = [h \in Holders |-> IdleHolder]

\* a capacity test that always lets a new connection be created
BelowCapacityAlways == TRUE

\* `len(self.in_use_connections) < self.max_connections`
BelowCapacity == Cardinality(in_use_connections) < MaxConnections

\* get_client up to its await: an idle connection is popped and handed out;
\* else below capacity a new MCPClient is created and connect() awaited;
\* else Exception("No available MCP connections")
GetClient(h) ==
    /\ holders[h].pc = "idle"
    /\ IF available_connections # <<>>
       THEN LET c == available_connections[Len(available_connections)]
            IN  /\ available_connections' = SubSeq(available_connections, 1, Len(available_connections) - 1)
                /\ in_use_connections' = in_use_connections \cup {c}
                /\ holders' = [holders EXCEPT ![h] = [pc |-> "holding", client |-> c, last |-> "client"]]
                /\ UNCHANGED nClients
       ELSE IF BelowCapacity
       THEN /\ nClients < MaxClients
            /\ nClients' = nClients + 1
            /\ holders' = [holders EXCEPT ![h] = [pc |-> "connecting", client |-> nClients + 1, last |-> "none"]]
            /\ UNCHANGED <<available_connections, in_use_connections>>
       ELSE /\ holders' = [holders EXCEPT ![h].last = "exhausted"]
            /\ UNCHANGED <<available_connections, in_use_connections, nClients>>
    /\ UNCHANGED <<client_connected, client_transport>>
    /\ UNCHANGED <<engineVars, clientVars, agentVars>>

\* an update of in_use_connections made before connect() is awaited
InUseAddedBeforeConnect(connected, c) == in_use_connections \cup {c}

\* `await client.connect()` then `self.in_use_connections.add(client)`: the
\* add is skipped when connect() raises
InUseAfterConnect(connected, c) ==
    IF connected THEN in_use_connections \cup {c} ELSE in_use_connections

\* get_client after `await client.connect()` returned: the client is added
\* to in_use_connections and handed out
GetClientConnected(h) ==
    /\ holders[h].pc = "connecting"
    /\ client_connected' = [client_connected EXCEPT ![holders[h].client] = TRUE]
    /\ client_transport' = [client_transport EXCEPT ![holders[h].client] = "open"]
    /\ in_use_connections' = InUseAfterConnect(TRUE, holders[h].client)
    /\ holders' = [holders EXCEPT ![h].pc = "holding", ![h].last = "client"]
    /\ UNCHANGED <<available_connections, nClients>>
    /\ UNCHANGED <<engineVars, clientVars, agentVars>>

\* `await client.connect()` raised: the error leaves get_client
GetClientConnectFailed(h) ==
    /\ holders[h].pc = "connecting"
    /\ holders' = [holders EXCEPT ![h] = [pc |-> "idle", client |-> 0, last |-> "connect_failed"]]
    /\ in_use_connections' = InUseAfterConnect(FALSE, holders[h].client)
    /\ UNCHANGED <<available_connections, client_connected, client_transport, nClients>>
    /\ UNCHANGED <<engineVars, clientVars, agentVars>>

\* the holder of a client calls its disconnect(), or a reconnect inside one
\* of its call_tool invocations fails: is_connected becomes False
HeldClientFails(h) ==
    /\ holders[h].pc = "holding"
    /\ client_connected[holders[h].client]
    /\ client_connected' = [client_connected EXCEPT ![holders[h].client] = FALSE]
    /\ client_transport' = [client_transport EXCEPT ![holders[h].client] = "closed"]
    /\ UNCHANGED <<available_connections, in_use_connections, nClients, holders>>
    /\ UNCHANGED <<engineVars, clientVars, agentVars>>

\* the transport of a held client is lost while a call_tool of the holder is
\* waiting: receive_messages raises 'Connection to MCP server lost', call_tool
\* re-raises it, and the client's is_connected is left as it was
HeldClientTransportLost(h) ==
    /\ holders[h].pc = "holding"
    /\ client_transport[holders[h].client] = "open"
    /\ client_transport' = [client_transport EXCEPT ![holders[h].client] = "lost"]
    /\ UNCHANGED <<available_connections, in_use_connections, client_connected, nClients, holders>>
    /\ UNCHANGED <<engineVars, clientVars, agentVars>>

\* return_client(client) by the holder of the client: a client that is in
\* in_use_connections is removed from it and, if its is_connected is True,
\* appended to available_connections, else closed by client.disconnect()
ReturnClient(h) ==
    /\ holders[h].pc = "holding"
    /\ LET c == holders[h].client
       IN  IF c \in in_use_connections
           THEN /\ in_use_connections' = in_use_connections \ {c}
                /\ available_connections' = IF client_connected[c]
                                             THEN Append(available_connections, c)
                                             ELSE available_connections
                /\ client_transport' = IF client_connected[c] \/ client_transport[c] = "none"
                                        THEN client_transport
                                        ELSE [client_transport EXCEPT ![c] = "closed"]
           ELSE UNCHANGED <<available_connections, in_use_connections, client_transport>>
    /\ holders' = [holders EXCEPT ![h] = [pc |-> "idle", client |-> 0, last |-> "returned"]]
    /\ UNCHANGED <<client_connected, nClients>>
    /\ UNCHANGED <<engineVars, clientVars, agentVars>>

\* return_client(client) by a pool user that does not hold the client: one
\* that returned it before, or never acquired it
ReturnClientNotHeld(h, c) ==
    /\ holders[h].pc = "idle"
    /\ c \in 1..nClients
    /\ IF c \in in_use_connections
       THEN /\ in_use_connections' = in_use_connections \ {c}
            /\ available_connections' = IF client_connected[c]
                                         THEN Append(available_connections, c)
                                         ELSE available_connections
            /\ client_transport' = IF client_connected[c] \/ client_transport[c] = "none"
                                    THEN client_transport
                                    ELSE [client_transport EXCEPT ![c] = "closed"]
       ELSE UNCHANGED <<available_connections, in_use_connections, client_transport>>
    /\ holders' = [holders EXCEPT ![h].last = "returned"]
    /\ UNCHANGED <<client_connected, nClients>>
    /\ UNCHANGED <<engineVars, clientVars, agentVars>>

PoolNext ==
    \/ \E h \in Holders : GetClient(h)
    \/ \E h \in Holders : GetClientConnected(h)
    \/ \E h \in Holders : GetClientConnectFailed(h)
    \/ \E h \in Holders : HeldClientFails(h)
    \/ \E h \in Holders : HeldClientTransportLost(h)
    \/ \E h \in Holders : ReturnClient(h)

\* the pool with return_client called by any of its users
PoolAnyReturnNext ==
    \/ \E h \in Holders : GetClient(h)
    \/ \E h \in Holders : GetClientConnected(h)
    \/ \E h \in Holders : GetClientConnectFailed(h)
    \/ \E h \in Holders : HeldClientFails(h)
    \/ \E h \in Holders : HeldClientTransportLost(h)
    \/ \E h \in Holders : ReturnClient(h)
    \/ \E h \in Holders, c \in Clients : ReturnClientNotHeld(h, c)

\* ------------------------------------------------------------------------
\* InfraAgent
\* ------------------------------------------------------------------------
Runs == 1..MaxRuns
ActionIds == 1..MaxActions

\* the users of the agent, by User.id
AgentUsers == {UidA, UidB}

IdleRun == [pc |-> "idle", fn |-> "none", user |-> "", action |-> 0, tool_result |-> NoneValue,
            outcome |-> NoOutcome]

AgentInit ==
    /\ pending_actions = <<>>
    /\ nextAction = 1
    /\ runs = [r \in Runs |-> IdleRun]
    /\ issued = <<>>

\* the result dict of a tool call, as call_tool returns it
ToolResult(success) == [success |-> success]

\* the answer of _handle_provision_request
Answer(requires_confirmation) == [requires_confirmation |-> requires_confirmation]

\* _handle_provision_request is called and awaits the credentials and the
\* plan_infrastructure tool call
HandleProvisionRequest(r, u) ==
    /\ runs[r].pc \in {"idle", "done"}
    /\ nextAction <= MaxActions
    /\ runs' = [runs EXCEPT ![r] = [pc |-> "planning", fn |-> "provision", user |-> u,
                                    action |-> 0, tool_result |-> NoneValue,
                                    outcome |-> NoOutcome]]
    /\ UNCHANGED <<pending_actions, nextAction, issued>>
    /\ UNCHANGED <<engineVars, clientVars, poolVars>>

\* a plan result that stores a pending action whatever its success field
PlanSucceededAlways(plan_result) == TRUE

\* `if plan_result.get("success"):`
PlanSucceeded(plan_result) == plan_result.success

\* the plan tool call returned plan_result: on success the pending action is
\* stored under a fresh uuid4 and the answer asks for confirmation
ProvisionPlanReturned(r, success) ==
    /\ runs[r].pc = "planning"
    /\ IF PlanSucceeded(ToolResult(success))
       THEN /\ nextAction <= MaxActions
            /\ pending_actions' = [a \in DOMAIN pending_actions \cup {nextAction} |->
                                     IF a = nextAction
                                     THEN [plan |-> nextAction, user_id |-> runs[r].user]
                                     ELSE pending_actions[a]]
            /\ nextAction' = nextAction + 1
            /\ runs' = [runs EXCEPT ![r].pc = "done", ![r].action = nextAction,
                                    ![r].tool_result = ToolResult(success),
                                    ![r].outcome = Returned(Answer(TRUE))]
       ELSE /\ runs' = [runs EXCEPT ![r].pc = "done",
                                    ![r].tool_result = ToolResult(success),
                                    ![r].outcome = Returned(Answer(FALSE))]
            /\ UNCHANGED <<pending_actions, nextAction>>
    /\ UNCHANGED issued
    /\ UNCHANGED <<engineVars, clientVars, poolVars>>

\* get_user_credentials or the plan tool call raised: the error leaves
\* _handle_provision_request
ProvisionRaised(r) ==
    /\ runs[r].pc = "planning"
    /\ runs' = [runs EXCEPT ![r].pc = "done", ![r].outcome = Raised("call_failed")]
    /\ UNCHANGED <<pending_actions, nextAction, issued>>
    /\ UNCHANGED <<engineVars, clientVars, poolVars>>

\* an ownership test that lets any user execute the action
ActionOwnedByAnyone(action_id, u) == TRUE

\* `action["user_id"] != user.id` does not hold
ActionOwnedBy(action_id, u) == pending_actions[action_id].user_id = u

\* execute_action up to its await: the two tests, then the
\* apply_infrastructure tool call is issued
ExecuteAction(r, action_id, u) ==
    /\ runs[r].pc \in {"idle", "done"}
    /\ IF action_id \notin DOMAIN pending_actions
       THEN /\ runs' = [runs EXCEPT ![r] = [pc |-> "done", fn |-> "execute", user |-> u,
                                            action |-> action_id, tool_result |-> NoneValue,
                                            outcome |-> Raised("invalid_action")]]
            /\ UNCHANGED issued
       ELSE IF ~ActionOwnedBy(action_id, u)
       THEN /\ runs' = [runs EXCEPT ![r] = [pc |-> "done", fn |-> "execute", user |-> u,
                                            action |-> action_id, tool_result |-> NoneValue,
                                            outcome |-> Raised("unauthorized")]]
            /\ UNCHANGED issued
       ELSE /\ Len(issued) < MaxToolCalls
            /\ issued' = Append(issued, action_id)
            /\ runs' = [runs EXCEPT ![r] = [pc |-> "applying", fn |-> "execute", user |-> u,
                                            action |-> action_id, tool_result |-> NoneValue, outcome |-> NoOutcome]]
    /\ UNCHANGED <<pending_actions, nextAction>>
    /\ UNCHANGED <<engineVars, clientVars, poolVars>>

\* the apply tool call returned a result: `del self.pending_actions[action_id]`
\* (a KeyError when the entry is gone), then the result is returned
ApplyReturned(r, success) ==
    /\ runs[r].pc = "applying"
    /\ IF runs[r].action \in DOMAIN pending_actions
       THEN /\ pending_actions' = [a \in (DOMAIN pending_actions) \ {runs[r].action} |->
                                     pending_actions[a]]
            /\ runs' = [runs EXCEPT ![r].pc = "done",
                                    ![r].tool_result = ToolResult(success),
                                    ![r].outcome = Returned(ToolResult(success))]
       ELSE /\ UNCHANGED pending_actions
            /\ runs' = [runs EXCEPT ![r].pc = "done",
                                    ![r].tool_result = ToolResult(success),
                                    ![r].outcome = Raised("KeyError")]
    /\ UNCHANGED <<nextAction, issued>>
    /\ UNCHANGED <<engineVars, clientVars, poolVars>>

\* the apply tool call raised (timeout, connection loss, operation error):
\* the error leaves execute_action before the del
ApplyRaised(r, kind) ==
    /\ runs[r].pc = "applying"
    /\ runs' = [runs EXCEPT ![r].pc = "done", ![r].outcome = Raised(kind)]
    /\ UNCHANGED <<pending_actions, nextAction, issued>>
    /\ UNCHANGED <<engineVars, clientVars, poolVars>>

\* the ways call_tool raises
ToolCallErrors == {"timeout_error", "connection_lost", "operation_error"}

AgentNext ==
    \/ \E r \in Runs, u \in AgentUsers : HandleProvisionRequest(r, u)
    \/ \E r \in Runs, success \in BOOLEAN : ProvisionPlanReturned(r, success)
    \/ \E r \in Runs : ProvisionRaised(r)
    \/ \E r \in Runs, a \in ActionIds, u \in AgentUsers : ExecuteAction(r, a, u)
    \/ \E r \in Runs, success \in BOOLEAN : ApplyReturned(r, success)
    \/ \E r \in Runs, kind \in ToolCallErrors : ApplyRaised(r, kind)

\* one request at a time
AgentSequentialNext ==
    \/ /\ \A o \in Runs : runs[o].pc \in {"idle", "done"}
       /\ \/ \E r \in Runs, u \in AgentUsers : HandleProvisionRequest(r, u)
          \/ \E r \in Runs, a \in ActionIds, u \in AgentUsers : ExecuteAction(r, a, u)
    \/ \E r \in Runs, success \in BOOLEAN : ProvisionPlanReturned(r, success)
    \/ \E r \in Runs : ProvisionRaised(r)
    \/ \E r \in Runs, success \in BOOLEAN : ApplyReturned(r, success)
    \/ \E r \in Runs, kind \in ToolCallErrors : ApplyRaised(r, kind)

\* ------------------------------------------------------------------------
\* Specifications
\* ------------------------------------------------------------------------
Init == EngineInit /\ ClientInit /\ PoolInit /\ AgentInit

\* one call_tool at a time: a caller starts only when no other call is running
CallToolAlone(t) ==
    /\ \A o \in Tasks : tasks[o].pc \in {"idle", "done"}
    /\ CallTool(t)

ClientSequentialNext ==
    \/ \E t \in Tasks : CallToolAlone(t)
    \/ \E t \in Tasks : ConnectOpened(t)
    \/ \E t \in Tasks : ConnectRefused(t)
    \/ \E t \in Tasks : Receive(t)
    \/ \E t \in Tasks : Timeout(t)
    \/ \E t \in Tasks : ConnectionLost(t)
    \/ Disconnect
    \/ \E r \in sent, ok \in BOOLEAN : ServerRespond(r, ok)
    \/ \E s \in Sessions : TransportLost(s)

HelperInit == FreshEngine /\ symlinks \in SymlinkChoices /\ ClientInit /\ PoolInit /\ AgentInit

SpecHelpers == HelperInit /\ [][HelperNext]_vars
\* one caller at a time, against a server that may also send irregular messages
ClientFaultyNext ==
    \/ \E t \in Tasks : CallToolAlone(t)
    \/ \E t \in Tasks : ConnectOpened(t)
    \/ \E t \in Tasks : ConnectRefused(t)
    \/ \E t \in Tasks : Receive(t)
    \/ \E t \in Tasks : Timeout(t)
    \/ \E t \in Tasks : ConnectionLost(t)
    \/ Disconnect
    \/ \E r \in sent, ok \in BOOLEAN : ServerRespond(r, ok)
    \/ \E s \in Sessions, kind \in OddKinds : ServerSendsOdd(s, kind)
    \/ \E r \in sent, kind \in OddResponseKinds : ServerRespondsOdd(r, kind)
    \/ \E s \in Sessions : TransportLost(s)

\* concurrent callers against a server that may answer, not answer, or send
\* an endless stream of messages that are dropped
ClientLiveNext ==
    \/ \E t \in Tasks : CallTool(t)
    \/ \E t \in Tasks : ConnectOpened(t)
    \/ \E t \in Tasks : ConnectRefused(t)
    \/ \E t \in Tasks : Receive(t)
    \/ \E t \in Tasks : Timeout(t)
    \/ \E t \in Tasks : TimeoutWhileReceiving(t)
    \/ \E t \in Tasks : ConnectionLost(t)
    \/ \E r \in sent, ok \in BOOLEAN : ServerRespond(r, ok)
    \/ \E s \in Sessions : ServerKeepsSending(s, "bad_json")
    \/ \E s \in Sessions : TransportLost(s)

\* websockets.connect returns or raises within its open timeout; a wait in
\* _wait_for_response ends at the latest when its deadline passes, or at
\* once when the transport is closed and drained
ClientFairness ==
    \A t \in Tasks :
        /\ WF_vars(ConnectOpened(t) \/ ConnectRefused(t))
        /\ WF_vars(Timeout(t) \/ TimeoutWhileReceiving(t) \/ ConnectionLost(t))

SpecClientLive == Init /\ [][ClientLiveNext]_vars /\ ClientFairness
\* every machine as constructed, and a wire message handed to the codec
InitWithMessage == EngineInit /\ FreshClient /\ CodecInit /\ PoolInit /\ AgentInit

SpecCodec == InitWithMessage /\ [][CodecNext]_vars
SpecClientFaulty == Init /\ [][ClientFaultyNext]_vars
SpecEngine == Init /\ [][EngineNext]_vars
SpecWorkspaces == Init /\ [][WorkspaceNext]_vars
SpecClientSequential == Init /\ [][ClientSequentialNext]_vars
SpecClient == Init /\ [][ClientNext]_vars
SpecPool == Init /\ [][PoolNext]_vars
SpecPoolAnyReturn == Init /\ [][PoolAnyReturnNext]_vars
SpecAgent == Init /\ [][AgentNext]_vars
SpecAgentSequential == Init /\ [][AgentSequentialNext]_vars

\* ------------------------------------------------------------------------
\* Properties
\* ------------------------------------------------------------------------

\* the server's response to request id, and what call_tool has to end with
\* once that response is there
ResponseTo(id) == CHOOSE a \in answered : a.id = id

Carried(id) ==
    IF ResponseTo(id).ok THEN Returned([tools |-> {}, value |-> id]) ELSE Raised("tool_call_failed")

\* task t's call_tool leaves its wait for the tools/call response in this step
EndsCall(t) == tasks[t].pc = "call_wait" /\ tasks'[t].pc = "done"

\* the message with this id is still in some inbox
InSomeInbox(id) ==
    \E s \in Sessions : \E i \in 1..Len(transports[s].inbox) : transports[s].inbox[i].id = id

\* C1: with calls running concurrently on one MCPClient, a call whose
\* response has arrived ends with what that response carries (no response is
\* consumed by another caller's wait), and no call is turned away from the
\* transport because another caller is reading it.
C1_EachCallerGetsItsResponse ==
    [][\A t \in Tasks :
          /\ (EndsCall(t) /\ tasks[t].id \in AnsweredIds) => tasks'[t].outcome = Carried(tasks[t].id)
          /\ tasks'[t].outcome.kind # "recv_busy"]_vars

C3_NoCredentialFileAfterReturn ==
    \A c \in CallIds : calls[c].pc = "done" => c \notin DOMAIN credFiles

\* C4: a call_tool that returns a result returns the result of the response
\* whose id is its own request id; the late response of a timed-out call is
\* not delivered to any other call.
C4_OnlyOwnResponse ==
    \A t \in Tasks :
        tasks[t].outcome.kind = "result" =>
            /\ \E a \in answered : a.id = tasks[t].id /\ a.ok
            /\ tasks[t].outcome.result.value = tasks[t].id

\* a call timed out, its response came late and has been read and dropped,
\* and a later call of another caller returned its own result
C4_Witness ==
    \E t \in Tasks, o \in Tasks :
        /\ t # o
        /\ tasks[t].pc = "done" /\ tasks[t].outcome.kind = "timed_out"
        /\ \E a \in answered : a.id = tasks[t].id /\ a.late
        /\ ~InSomeInbox(tasks[t].id)
        /\ tasks[o].pc = "done" /\ tasks[o].outcome.kind = "result"
        /\ tasks[o].id > tasks[t].id

\* the step in which apply call c finds that plan p exists and belongs to someone else
RefusesStranger(c) ==
    /\ calls[c].pc = "a_check"
    /\ calls'[c].pc # "a_check"
    /\ calls[c].plan_id \in DOMAIN active_plans
    /\ active_plans[calls[c].plan_id].user_id # calls[c].user_id

\* C5: apply_infrastructure(P, U) with P in active_plans and U not the
\* plan's owner returns success=false, error 'Unauthorized', leaves
\* active_plans unchanged, creates no credential file, retrieves no
\* credentials and spawns no process.
C5_StrangerRefusedWithoutEffect ==
    [][\A c \in CallIds :
          RefusesStranger(c) =>
              /\ calls'[c].pc = "done"
              /\ calls'[c].result = Failure("Unauthorized")
              /\ active_plans' = active_plans
              /\ credFiles' = credFiles
              /\ credsRead' = credsRead
              /\ procs' = procs]_vars

\* an apply by a user who does not own the plan has returned, and the plan is still there
C5_Witness ==
    \E c \in CallIds :
        /\ calls[c].kind = "apply" /\ calls[c].pc = "done"
        /\ calls[c].result = Failure("Unauthorized")
        /\ calls[c].plan_id \in DOMAIN active_plans
        /\ active_plans[calls[c].plan_id].user_id # calls[c].user_id
        /\ c \notin credsRead

\* C6: a plan_infrastructure call whose user_id is not UUID-shaped or whose
\* environment is not dev, staging or prod never gets past validation: it
\* returns success=false, and no workspace, configuration, credential file,
\* process or ActivePlan of it exists.
C6_InvalidInputHasNoEffect ==
    \A c \in CallIds :
        (/\ calls[c].kind = "plan"
         /\ ~(UuidShaped(calls[c].user_id) /\ ValidEnvironment(calls[c].environment)))
        => /\ calls[c].pc \in {"p_workspace", "done"}
           /\ calls[c].pc = "done" => ~calls[c].result.success
           /\ WorkspacePath(calls[c].user_id, calls[c].environment) \notin DOMAIN dirs
           /\ WorkspacePath(calls[c].user_id, calls[c].environment) \notin configs
           /\ c \notin DOMAIN credFiles
           /\ c \notin DOMAIN active_plans
           /\ c \notin credsRead
           /\ \A pr \in procs : pr.call # c

\* C7: a call_tool whose timeout elapses ends with the timeout error, which
\* is neither the connection-loss nor the operation error; and once a call
\* has timed out, a later call whose response has arrived still ends with
\* what its own response carries, also with the late response in between.
C7_TimeoutThenLaterCallSucceeds ==
    [][\A t \in Tasks :
          /\ (EndsCall(t) /\ tasks[t].id \in timed_out_ids') =>
                 /\ tasks'[t].outcome = Raised("timed_out")
                 /\ tasks'[t].outcome.kind \notin {"connection_lost", "tool_call_failed"}
          /\ (EndsCall(t) /\ timed_out_ids # {} /\ tasks[t].id \in AnsweredIds) =>
                 tasks'[t].outcome = Carried(tasks[t].id)]_vars

\* a call timed out, its late response arrived, and a call issued after it
\* has returned the result of its own response
C7_Witness ==
    \E t \in Tasks, i \in timed_out_ids :
        /\ \E a \in answered : a.id = i /\ a.late
        /\ tasks[t].pc = "done" /\ tasks[t].id > i
        /\ tasks[t].outcome = Returned([tools |-> {}, value |-> tasks[t].id])

\* C8: the pool never owns more than max_connections connections.
C8_PoolWithinCapacity ==
    Cardinality(in_use_connections) + Len(available_connections) <= MaxConnections

\* C9: no tools/call request is sent on a session before the initialize and
\* the tools/list request sent on that session have been answered successfully.
C9_HandshakeBeforeToolCall ==
    \A r \in sent : r.method = "tools/call" => r.handshaken

\* C10: a call that is waiting when the transport is lost ends with the
\* connection error, and the client is then marked unusable (is_connected
\* is False).
C10_TransportLossMarksUnusable ==
    [][\A t \in Tasks :
          (tasks[t].pc \in WaitStates /\ ~transports[tasks[t].rws].open
             /\ transports[tasks[t].rws].inbox = <<>> /\ tasks'[t].pc = "done")
          => /\ tasks'[t].outcome.kind = "connection_lost"
             /\ ~is_connected']_vars

\* C11: a connection whose transport was lost while it was in use, or whose
\* connect failed, is never put into available_connections by return_client
\* (so never handed out again): every idle connection of the pool has an
\* open transport.
C11_FailedConnectionNotRecycled ==
    \A i \in 1..Len(available_connections) :
        client_transport[available_connections[i]] = "open"

\* the step in which holder h's get_client call runs up to its return,
\* raise or await
GetClientStep(h) == holders[h].pc = "idle" /\ holders'[h] # holders[h]

\* C12: get_client hands out an idle connection whenever there is one; with
\* none idle and max_connections connections in use it fails at once with
\* the pool-exhausted error, creates and connects no MCPClient and leaves
\* both collections unchanged.
C12_IdleReusedOrExhausted ==
    [][\A h \in Holders :
          GetClientStep(h) =>
             /\ available_connections # <<>> =>
                   /\ holders'[h].pc = "holding"
                   /\ holders'[h].client = available_connections[Len(available_connections)]
                   /\ holders'[h].client \in in_use_connections'
                   /\ nClients' = nClients
             /\ (available_connections = <<>> /\ Cardinality(in_use_connections) >= MaxConnections) =>
                   /\ holders'[h].pc = "idle"
                   /\ holders'[h].last = "exhausted"
                   /\ nClients' = nClients
                   /\ available_connections' = available_connections
                   /\ in_use_connections' = in_use_connections]_vars

\* a get_client call was refused while max_connections connections were in
\* use, and another holder got its connection from the idle list
C12_Witness ==
    /\ Cardinality(in_use_connections) >= MaxConnections
    /\ available_connections = <<>>
    /\ \E h \in Holders : holders[h].last = "exhausted"
    /\ \E h \in Holders : holders[h].pc = "holding" /\ holders[h].client < nClients

\* call c returns in this step
Returns(c) == calls[c].pc # "done" /\ calls'[c].pc = "done"

\* C13: plan_infrastructure with a valid user id and environment dev, whose
\* init and plan subcommands completed normally (plan, run with
\* -detailed-exitcode, reporting changes) with one resource to create in the
\* plan, returns success=true with resources_to_create = 1 and has recorded
\* an ActivePlan owned by that user.
C13_PlanWithOneCreateSucceeds ==
    [][\A c \in CallIds :
          (/\ Returns(c)
           /\ calls[c].kind = "plan"
           /\ UuidShaped(calls[c].user_id) /\ calls[c].environment = "dev"
           /\ calls[c].plan_exit = "exit_2" /\ calls[c].creates = 1)
          => /\ calls'[c].result.success
             /\ calls'[c].result.resources_to_create = 1
             /\ c \in DOMAIN active_plans'
             /\ active_plans'[c].user_id = calls[c].user_id]_vars

\* C14: _run_terraform_command spawns a process only for an argument list
\* whose first element is init, plan, apply, destroy, output, show or
\* validate; every other argument list, the empty one included, is rejected
\* with an error and nothing is spawned.
C14_OnlyAllowedSubcommandsSpawn ==
    /\ \A pr \in procs : pr.cmd # <<>> /\ pr.cmd[1] \in AllowedCommands
    /\ (/\ direct.fn = "_run_terraform_command"
        /\ (direct.cmd = <<>> \/ direct.cmd[1] \notin AllowedCommands))
       => direct.outcome # "spawn"

\* C15: every spawned process runs in an existing directory inside the base
\* directory; _run_terraform_command refuses a cwd that resolves outside the
\* base or does not exist; _create_workspace creates and returns only paths
\* inside the base.
C15_EverythingStaysInsideBase ==
    /\ \A pr \in procs : RelativeTo(pr.cwd, Base) /\ Exists(pr.cwd)
    /\ (/\ direct.fn = "_run_terraform_command"
        /\ (~RelativeTo(Resolve(direct.cwd), Base) \/ ~Exists(Resolve(direct.cwd))))
       => direct.outcome # "spawn"
    /\ \A d \in DOMAIN dirs : RelativeTo(d, Base)
    /\ (direct.fn = "_create_workspace" /\ direct.outcome = "ok")
       => RelativeTo(Resolve(direct.cwd), Base)

\* C16: plan_infrastructure and apply_infrastructure end every failure by
\* returning success=false with an error text, and whenever a credential
\* file of the call had been created, the call returns from its cleanup step.
C16_FailuresReturnedAndCleanedUp ==
    [][\A c \in CallIds :
          Returns(c) =>
             /\ calls'[c].result.success \/ calls'[c].result.error # ""
             /\ (c \in DOMAIN credFiles \/ c \in DOMAIN credFiles') => calls[c].pc = "cleanup"]_vars

\* call c leaves its try block for the cleanup step in this step, with a
\* success result
SucceedsNow(c) == calls[c].pc # "cleanup" /\ calls'[c].pc = "cleanup" /\ calls'[c].pending.success

\* C17: an active_plans entry appears only in a step of the
\* plan_infrastructure call that then returns success=true under that id; it
\* disappears only in a step of an apply_infrastructure call for that id by
\* its owner that then returns success=true; every other step, and every
\* call that returns success=false, leaves each entry as it was.
C17_PlansCreatedAndConsumedBySuccess ==
    [][/\ \A p \in CallIds :
             /\ (p \notin DOMAIN active_plans /\ p \in DOMAIN active_plans') =>
                    /\ calls[p].kind = "plan" /\ calls[p].pc = "p_show" /\ SucceedsNow(p)
                    /\ calls'[p].pending.plan_id = p
                    /\ active_plans'[p].user_id = calls[p].user_id
             /\ (p \in DOMAIN active_plans /\ p \notin DOMAIN active_plans') =>
                    \E c \in CallIds :
                        /\ calls[c].kind = "apply" /\ calls[c].plan_id = p
                        /\ calls[c].user_id = active_plans[p].user_id
                        /\ SucceedsNow(c)
             /\ (p \in DOMAIN active_plans /\ p \in DOMAIN active_plans') =>
                    active_plans'[p] = active_plans[p]
       /\ \A c \in CallIds :
             Returns(c) =>
                /\ active_plans' = active_plans
                /\ calls'[c].result.success <=> (calls[c].pc = "cleanup" /\ calls[c].pending.success)]_vars

\* an apply of a plan by its owner failed in the external command and left
\* the plan in place, and a later apply of the same plan succeeded and
\* removed it
C17_Witness ==
    \E c \in CallIds, d \in CallIds :
        /\ calls[c].kind = "apply" /\ calls[c].pc = "done"
        /\ calls[c].result = Failure("Terraform command failed")
        /\ calls[d].kind = "apply" /\ calls[d].pc = "done" /\ calls[d].result.success
        /\ calls[d].plan_id = calls[c].plan_id /\ c < d
        /\ calls[c].plan_id \notin DOMAIN active_plans
        /\ calls[calls[c].plan_id].kind = "plan" /\ calls[calls[c].plan_id].result.success

\* ---- irregular messages

\* the waiting call t reads the message at the head of its transport
ReadsHead(t) ==
    /\ tasks[t].pc \in WaitStates
    /\ transports[tasks[t].rws].inbox # <<>>
    /\ transports'[tasks[t].rws].inbox = Tail(transports[tasks[t].rws].inbox)

HeadFor(t) == Head(transports[tasks[t].rws].inbox)

Malformed(m) == ~m.json_ok \/ m.type \notin MessageTypes

\* C18: a waiting call that receives a malformed message (not JSON, or of an
\* unrecognized kind) or a message whose id is not the one it waits for drops
\* it: the call does not fail and goes on waiting for its own response.
C18_OddMessagesAreDropped ==
    [][\A t \in Tasks :
         (ReadsHead(t) /\ (Malformed(HeadFor(t)) \/ HeadFor(t).id # tasks[t].id))
         => tasks'[t] = tasks[t]]_vars

\* C19: call_tool never returns normally on a matching response that carries
\* neither result nor error, and a message of an unrecognized kind fails the
\* call that decodes it.
C19_EmptyResponseIsProtocolError ==
    [][\A t \in Tasks :
         (ReadsHead(t) /\ tasks[t].pc = "call_wait" /\ HeadFor(t).json_ok) =>
           /\ (HeadFor(t).type \notin MessageTypes => tasks'[t].outcome.kind \notin {"none", "result"})
           /\ ( ( /\ HeadFor(t).type \in MessageTypes
                  /\ HeadFor(t).id = tasks[t].id
                  /\ HeadFor(t).result = NoneValue
                  /\ HeadFor(t).error = NoneValue )
                => tasks'[t].outcome.kind # "result" )]_vars

\* C20: on the matching response call_tool returns the result only when the
\* response carries no error payload; with an error payload of any content,
\* the empty object included, it raises the operation error.
C20_ErrorPayloadAlwaysRaises ==
    [][\A t \in Tasks :
         ( /\ ReadsHead(t)
           /\ tasks[t].pc = "call_wait"
           /\ ~Malformed(HeadFor(t))
           /\ HeadFor(t).id = tasks[t].id ) =>
           /\ (tasks'[t].outcome.kind = "result" => HeadFor(t).error = NoneValue)
           /\ (HeadFor(t).error # NoneValue => tasks'[t].outcome = Raised("tool_call_failed"))]_vars

\* ---- codec

Fields == {"id", "type", "method", "params", "result", "error"}

\* a well-formed wire message: its kind is present and one of the four, and
\* no key carries null (an absent field is simply not there)
WellFormed(w) ==
    /\ IsMemberValue(w.type)
    /\ \A k \in Fields : w[k] # NoneValue

\* C21: encoding the message decoded from a well-formed wire message gives
\* back that wire message, field by field; and encoding never emits a field
\* whose value is absent (null).
C21_RoundTrip ==
    codec.pc = "encoded" =>
        /\ (WellFormed(codec.wire) => codec.out = codec.wire)
        /\ \A k \in Fields : codec.out[k] # NoneValue

C21_Witness ==
    /\ codec.pc = "encoded"
    /\ WellFormed(codec.wire)
    /\ codec.wire.id = JsonString("r1")
    /\ codec.wire.type = JsonString("response")
    /\ codec.wire.result = SomeObject
    /\ codec.wire.error = Absent
    /\ codec.message.error = NoneValue
    /\ codec.out = codec.wire

\* ---- permissions

\* call c returns from _create_workspace with a workspace
CreateWorkspaceReturns(c) == calls[c].pc = "p_workspace" /\ calls'[c].pc = "p_config"

\* C22: when _create_workspace returns, the workspace directory has mode
\* 0o750, whatever the umask and whether or not it existed before; and a
\* credential file on disk never grants more than owner read/write (0o600).
C22_RestrictedPermissions ==
    [][ /\ \A c \in CallIds :
             CreateWorkspaceReturns(c) => dirs'[Resolve(calls'[c].workspace)] = Mode750
        /\ \A f \in DOMAIN credFiles' : credFiles'[f] \subseteq Mode600 ]_vars

\* a second plan found its workspace already there, under the tightened
\* umask, while a credential file is on disk
C22_Witness ==
    \E c \in CallIds :
        /\ calls[c].pc = "p_config"
        /\ umask = Umask077
        /\ \E p \in DOMAIN active_plans : active_plans[p].workspace_path = calls[c].workspace
        /\ dirs[Resolve(calls[c].workspace)] = Mode750
        /\ \E f \in DOMAIN credFiles : f # c /\ credFiles[f] = Mode600

\* ---- one apply per plan

\* the external apply subcommand of call c has exited successfully: the call
\* is past line 121, i.e. reading outputs, or leaving with the result of the
\* statements after it
AppliedSuccessfully(c) ==
    /\ calls[c].kind = "apply"
    /\ \/ calls[c].pc = "a_outputs"
       \/ calls[c].pc = "cleanup" /\ calls[c].pending \in {ApplySuccess, Failure("KeyError")}
       \/ calls[c].pc = "done" /\ calls[c].result \in {ApplySuccess, Failure("KeyError")}

Readers == {t \in Tasks : tasks[t].pc \in WaitStates}

\* C24: at every moment at most one task is reading from the client's
\* transport, however many call_tool invocations are in flight.
C24_SingleReader == Cardinality(Readers) <= 1

\* ---- the waiter table

\* the ids of the requests that have been sent and have neither received
\* their response nor timed out: those a task is waiting for
Outstanding == {tasks[t].id : t \in {u \in Tasks : tasks[u].pc \in WaitStates}}

\* C25: in every reachable state pending_requests holds exactly the ids of
\* the requests that were sent and have neither been answered nor timed out.
C25_WaiterTableTracksRequests == pending_requests = Outstanding

\* ---- order of the external commands

\* the processes spawned by the step
Spawned == procs' \ procs

\* C26: within one plan_infrastructure call the plan subcommand is invoked
\* only after the init subcommand of that call has exited successfully; and
\* every external process of a plan or apply call runs while the call's own
\* credential file exists (after its creation, before its cleanup).
C26_InitBeforePlanWithCredentials ==
    [][\A pr \in Spawned :
          /\ pr.cmd[1] = "plan" =>
                /\ calls[pr.call].init_exit = "exit_0"
                /\ \E q \in procs : q.call = pr.call /\ q.cmd[1] = "init"
          /\ pr.credentials
          /\ pr.call \in DOMAIN credFiles
          /\ pr.call \in DOMAIN credFiles'
          /\ calls[pr.call].pc \notin {"cleanup", "done"}]_vars

\* a plan call has run init, plan and show, and an apply call apply and
\* output, all with their credential file
C26_Witness ==
    \E c \in CallIds, d \in CallIds :
        /\ calls[d].kind = "apply"
        /\ \A cmd \in {"init", "plan", "show"} :
              \E pr \in procs : pr.call = c /\ pr.cmd[1] = cmd /\ pr.credentials
        /\ \A cmd \in {"apply", "output"} :
              \E pr \in procs : pr.call = d /\ pr.cmd[1] = cmd /\ pr.credentials

\* ---- workspaces of the active plans

\* the environment plan p was made for: that of the call that created it
EnvironmentOf(p) == calls[p].environment

\* C27: the workspace path of every active plan is the directory of (its
\* user id, its environment) under the base directory; two active plans
\* have the same workspace path exactly when they have the same user id and
\* environment; and no operation removes a workspace directory.
C27_WorkspacePerUserAndEnvironment ==
    [][ /\ \A p \in DOMAIN active_plans' :
             /\ active_plans'[p].workspace_path
                   = Base \o <<UserDirName(active_plans'[p].user_id), calls'[p].environment>>
             /\ Resolve(active_plans'[p].workspace_path) \in DOMAIN dirs'
        /\ \A p \in DOMAIN active_plans', q \in DOMAIN active_plans' :
             (active_plans'[p].workspace_path = active_plans'[q].workspace_path)
                <=> (/\ active_plans'[p].user_id = active_plans'[q].user_id
                     /\ calls'[p].environment = calls'[q].environment)
        /\ \A d \in DOMAIN dirs : d \in DOMAIN dirs' ]_vars

\* two plans of one user and environment share a workspace, a third plan of
\* the same user for another environment has its own
C27_Witness ==
    \E p \in DOMAIN active_plans, q \in DOMAIN active_plans, r \in DOMAIN active_plans :
        /\ p # q
        /\ active_plans[p].workspace_path = active_plans[q].workspace_path
        /\ active_plans[r].user_id = active_plans[p].user_id
        /\ EnvironmentOf(r) # EnvironmentOf(p)
        /\ active_plans[r].workspace_path # active_plans[p].workspace_path

\* ---- termination of call_tool

\* C28: every call_tool invocation eventually completes (with a result or
\* an error), whatever the server does -- no answer, late answers, answers
\* to other ids, an endless stream of dropped messages -- and also while
\* other calls run on the same client.
C28_EveryCallCompletes ==
    \A t \in Tasks : (tasks[t].pc \notin {"idle", "done"}) ~> (tasks[t].pc = "done")

\* a call has ended by its timeout with an unread message of the stream on
\* its transport, while another call is still waiting
C28_Witness ==
    \E t \in Tasks, o \in Tasks :
        /\ t # o
        /\ tasks[t].pc = "done"
        /\ tasks[t].outcome = Raised("timed_out")
        /\ tasks[o].pc \in WaitStates
        /\ \E s \in Sessions : transports[s].inbox # <<>> /\ ~Head(transports[s].inbox).json_ok

\* ---- the reported resource count

\* call c leaves the try block of plan_infrastructure with a success result
PlanSucceedsNow(c) ==
    /\ calls[c].kind = "plan"
    /\ calls[c].pc = "p_show"
    /\ calls'[c].pc = "cleanup"
    /\ calls'[c].pending.success

\* C29: a successful plan result reports as resources_to_create the number
\* of create changes of the artifact its plan subcommand produced, and that
\* number was computed from the parsed artifact: a plan whose show step
\* failed or gave unparsable output is not reported as successful.
C29_CountComesFromParsedPlan ==
    [][\A c \in CallIds :
          PlanSucceedsNow(c) =>
              /\ calls'[c].pending.resources_to_create = calls[c].creates
              /\ calls'[c].plan_json = "parsed"]_vars

\* ---- the user id pattern

\* C30: _create_workspace accepts a user id exactly when it consists of 36
\* characters, each a lower-case hexadecimal digit or a hyphen; any other
\* string is rejected with the validation error and no path is built.
C30_UserIdIsUuidShaped ==
    direct.fn = "_create_workspace" =>
        /\ UuidShaped(direct.user_id) <=> direct.outcome # "Invalid user_id format"
        /\ ~UuidShaped(direct.user_id) => direct.cwd = <<>>

\* ---- the outcome of apply

\* the external apply of call c has exited with 0 and the call leaves the
\* try block after reading the outputs
ApplyFinishes(c) ==
    calls[c].kind = "apply" /\ calls[c].pc = "a_outputs" /\ calls'[c].pc = "cleanup"

\* the external apply of call c was refused, failed or timed out
ApplyFails(c) ==
    calls[c].kind = "apply" /\ calls[c].pc = "a_apply" /\ calls'[c].pc = "cleanup"

CredentialsFileStep(c) ==
    calls[c].pc \in {"p_credfile", "a_credfile"} /\ calls'[c].pc # calls[c].pc

\* C39: _create_secure_credentials_file leaves the umask of the process as
\* it found it, so that the umask after plan_infrastructure or
\* apply_infrastructure equals the one before.
C39_UmaskRestored ==
    [][\A c \in CallIds : CredentialsFileStep(c) => umask' = umask]_vars

\* ---- concurrent callers of an unconnected client

\* a task other than t is inside connect(), past websockets.connect
Handshaking(t) == \E o \in Tasks \ {t} : tasks[o].pc \in {"init_wait", "list_wait"}

\* task t's websockets.connect returns in this step
Opens(t) == tasks[t].pc = "opening" /\ tasks'[t].pc = "init_wait"

\* C32: call_tool invocations started together on an unconnected client open
\* one transport session and perform one handshake: no task opens a session
\* while another task's connect() is under way on a session of its own, which
\* the assignment to self.websocket would overwrite and leave unclosed.
C32_OneSessionForConcurrentCallers ==
    [][\A t \in Tasks : Opens(t) => ~Handshaking(t)]_vars

\* ---- a failing connect()

\* task t's connect() raises in this step
ConnectFails(t) == tasks[t].pc \in ConnectStates /\ tasks'[t].pc = "done"

\* C38: when connect() fails at any step the error propagates, is_connected
\* is False afterwards and the transport that attempt opened is not left open.
C38_FailedConnectLeavesNothingOpen ==
    [][\A t \in Tasks :
          ConnectFails(t) =>
              /\ tasks'[t].outcome.kind \notin {"none", "result"}
              /\ ~is_connected'
              /\ tasks[t].rws # 0 => ~transports'[tasks[t].rws].open]_vars

\* ---- a new connection that fails to connect

\* holder h's get_client ends in this step because connect() raised
ConnectFailsInGetClient(h) == holders[h].pc = "connecting" /\ holders'[h].last = "connect_failed"

\* the clients that are in available_connections
AvailableSet == {available_connections[i] : i \in DOMAIN available_connections}

\* C36: when the connect() of a connection get_client has just created fails,
\* the error reaches the caller and the pool is unchanged: the failed client
\* is in neither collection, so the room below max_connections is as before.
C36_FailedConnectLeavesPoolUnchanged ==
    [][\A h \in Holders :
          ConnectFailsInGetClient(h) =>
              /\ holders'[h].pc = "idle"
              /\ in_use_connections' = in_use_connections
              /\ available_connections' = available_connections
              /\ holders[h].client \notin in_use_connections' \cup AvailableSet']_vars

\* after a failed connect, with max_connections - 1 clients in use, a later
\* get_client has created one more connection and handed it out
C36_Witness ==
    \E h, g \in Holders :
        /\ holders[h].last = "connect_failed"
        /\ holders[g].pc = "holding"
        /\ holders[g].client = nClients
        /\ Cardinality(in_use_connections) = MaxConnections
        /\ nClients > MaxConnections

\* ---- the two collections of the pool

\* no client is in both collections and none is twice in available_connections
CollectionsDisjoint ==
    /\ AvailableSet \cap in_use_connections = {}
    /\ \A i, j \in DOMAIN available_connections :
          available_connections[i] = available_connections[j] => i = j

\* no two pool users hold the same client
OneHolderPerClient ==
    \A h, g \in Holders :
        (holders[h].pc = "holding" /\ holders[g].pc = "holding"
            /\ holders[h].client = holders[g].client) => h = g

\* C37: the collections stay disjoint and free of duplicates, a return_client
\* of a client the caller does not hold (already returned, or never
\* acquired) leaves a client that is not in in_use_connections where it is,
\* and no client is held by two pool users at once.
C37_NoClientHandedOutTwice ==
    /\ [](CollectionsDisjoint /\ OneHolderPerClient)
    /\ [][\A h \in Holders, c \in Clients :
             (ReturnClientNotHeld(h, c) /\ c \notin in_use_connections)
                 => UNCHANGED <<available_connections, in_use_connections>>]_vars

\* ---- the agent's pending actions

\* the number of apply_infrastructure tool calls issued for action a
IssuedFor(a) == Cardinality({i \in DOMAIN issued : issued[i] = a})

\* the runs whose apply tool call for action a is outstanding
Applying(a) == {r \in Runs : runs[r].pc = "applying" /\ runs[r].action = a}

\* C33: for every pending action id no second apply_infrastructure tool call
\* is issued while one is outstanding, whatever the interleaving of the
\* execute_action calls of its owner, and no execute_action ends with a
\* KeyError because another one removed the entry meanwhile.
C33_OneApplyPerPendingAction ==
    /\ \A a \in ActionIds : Cardinality(Applying(a)) <= 1
    /\ \A r \in Runs : runs[r].outcome # Raised("KeyError")

\* C34: execute_action with an action id that is not in pending_actions, or
\* by a user other than the pending action's user_id, raises, issues no tool
\* call and leaves pending_actions unchanged.
C34_RefusedExecuteHasNoEffect ==
    [][\A r \in Runs, a \in ActionIds, u \in AgentUsers :
          (ExecuteAction(r, a, u)
              /\ (a \notin DOMAIN pending_actions \/ pending_actions[a].user_id # u))
          => /\ runs'[r].outcome \in {Raised("invalid_action"), Raised("unauthorized")}
             /\ issued' = issued
             /\ pending_actions' = pending_actions]_vars

\* a user other than the owner was refused while the action is still pending
\* and no tool call was issued for it
C34_Witness ==
    \E r \in Runs :
        /\ runs[r].outcome = Raised("unauthorized")
        /\ runs[r].action \in DOMAIN pending_actions
        /\ pending_actions[runs[r].action].user_id # runs[r].user
        /\ IssuedFor(runs[r].action) = 0

\* C35: execute_action removes the pending action exactly when the apply tool
\* call returns a result, also one with success=false, and leaves it in place
\* when the tool call raises; a pending action is created only by a provision
\* request whose plan result has success=true.
C35_PendingActionLifecycle ==
    [][/\ \A r \in Runs :
             /\ (runs[r].pc = "applying" /\ runs'[r].tool_result # NoneValue)
                   => runs[r].action \notin DOMAIN pending_actions'
             /\ (runs[r].pc = "applying" /\ runs'[r].pc = "done"
                                         /\ runs'[r].tool_result = NoneValue)
                   => pending_actions' = pending_actions
       /\ (DOMAIN pending_actions') \subseteq (DOMAIN pending_actions)
             \/ \E r \in Runs : /\ runs[r].pc = "planning"
                                /\ runs'[r].tool_result = ToolResult(TRUE)
       /\ (DOMAIN pending_actions) \subseteq (DOMAIN pending_actions')
             \/ \E r \in Runs : /\ runs[r].pc = "applying"
                                /\ runs'[r].tool_result # NoneValue]_vars

\* an apply that returned success=false removed its pending action, and an
\* apply that raised left another one in place
C35_Witness ==
    \E r, q \in Runs :
        /\ runs[r].outcome = Returned(ToolResult(FALSE))
        /\ runs[r].action \notin DOMAIN pending_actions
        /\ runs[q].outcome = Raised("timeout_error")
        /\ runs[q].fn = "execute"
        /\ runs[q].action \in DOMAIN pending_actions

====
